---- MODULE Spec2Model ----
(***************************************************************************)
(* Model of msftoolbox.sharepoint: the Graph file backend with its         *)
(* retrying, paginated fetcher (graph/client.py), the fallback             *)
(* orchestrator (fallback_client.py) and the backend selection of          *)
(* SharePointClient (client.py).  One synchronous thread; the remote       *)
(* services answer every request nondeterministically.                     *)
(*                                                                         *)
(* Strings that the code takes apart (paths, header values, drive names)   *)
(* are sequences of one-character strings.  Times are in milliseconds.     *)
(***************************************************************************)
EXTENDS Integers, Sequences, FiniteSets, TLC

\* ------------------------------------------------------------------ bounds
\* Pages one paginated fetch may be served before the server must stop
\* handing out continuation links.
MaxPages == 2
\* Items the server returns over all pages of one paginated fetch.
MaxItems == 2

\* --------------------------------------------------------------- constants
\* Python's None (rendered "None" by an f-string).
None == "None"

RETRY_STATUS_CODES == {429, 503, 504}
MAX_RETRIES == 5
\* BASE_DELAY = 1.0 second
BASE_DELAY == 1000
\* upper end (exclusive) of random.uniform(0, 0.5)
JITTER_MAX == 500
\* self.page_size
page_size == 500

\* Status codes a server answers with (RFC 9110: 100..599).
StatusCodes == {200, 404, 500, 429, 503, 504}

\* Jitter samples of random.uniform(0, 0.5): both ends of [0, 0.5s).
JitterValues == {0, JITTER_MAX - 1}

\* ----------------------------------------------------------------- strings
Digits == <<"0", "1", "2", "3", "4", "5", "6", "7", "8", "9">>

DigitVal(c) == (CHOOSE i \in 1..10 : Digits[i] = c) - 1

IsDigit(c) == \E i \in 1..10 : Digits[i] = c

\* int(s) succeeds on a non-empty run of decimal digits ...
IntParses(s) == Len(s) > 0 /\ \A i \in 1..Len(s) : IsDigit(s[i])

\* ... and is then its decimal value.
RECURSIVE int(_)
int(s) == IF Len(s) = 0 THEN 0
          ELSE 10 * int(SubSeq(s, 1, Len(s) - 1)) + DigitVal(s[Len(s)])

\* str.strip("/")
RECURSIVE lstrip(_)
lstrip(s) == IF Len(s) > 0 /\ s[1] = "/" THEN lstrip(Tail(s)) ELSE s

RECURSIVE rstrip(_)
rstrip(s) == IF Len(s) > 0 /\ s[Len(s)] = "/"
             THEN rstrip(SubSeq(s, 1, Len(s) - 1)) ELSE s

strip(s) == rstrip(lstrip(s))

\* index of the first "/" of s, 0 when there is none
FirstSlash(s) == IF \E i \in 1..Len(s) : s[i] = "/"
                 THEN CHOOSE i \in 1..Len(s) :
                        s[i] = "/" /\ \A j \in 1..(i - 1) : s[j] # "/"
                 ELSE 0

\* s.split("/")[0]
FirstSegment(s) == IF FirstSlash(s) = 0 THEN s
                   ELSE SubSeq(s, 1, FirstSlash(s) - 1)

\* urllib.parse.quote with the default safe="/": a space becomes %20,
\* letters, digits and "/" stay.
QuoteChar(c) == IF c = " " THEN "%20" ELSE c

quote(s) == [i \in 1..Len(s) |-> QuoteChar(s[i])]

\* Python's `a in b` on strings
IsSubstring(a, b) ==
    \E i \in 0..(Len(b) - Len(a)) : SubSeq(b, i + 1, i + Len(a)) = a

\* get_encoded_relative_path: the part after the first segment, quoted
get_encoded_relative_path(server_relative_url) ==
    LET s == strip(server_relative_url)
        k == FirstSlash(s)
    IN IF k = 0 THEN <<>> ELSE quote(SubSeq(s, k + 1, Len(s)))

\* ------------------------------------------------------------ remote data
\* Server-relative URLs the caller passes: "/D" and "/D/a b".
PathLibrary == <<"/", "D">>
PathFolder == <<"/", "D", "/", "a", " ", "b">>

\* Drives of the site as the drives listing may return them.
DriveD == [id |-> "d1", name |-> <<"D">>, webUrl |-> <<"h", "/", "D">>]
DriveX == [id |-> "d3", name |-> <<"X">>, webUrl |-> <<"h", "/", "X">>]
\* a drive named "D2" that is served under another web URL
DriveD2 == [id |-> "d2", name |-> <<"D", "2">>, webUrl |-> <<"h", "/", "Y">>]
DriveItems == {DriveD, DriveX, DriveD2}

\* Children of a folder: the keys a drive item carries.
ChildFile == [name |-> "f", keys |-> {"file"}]
ChildFolder == [name |-> "g", keys |-> {"folder"}]
ChildListed == [name |-> "k", keys |-> {"folder", "listItem"}]
ChildItems == {ChildFile, ChildFolder, ChildListed}

\* @odata.nextLink values; <<>> is an absent (or empty) link: both are falsy.
NoLink == <<>>
\* the continuation link page k carries, when it carries one
LinkOf(k) == <<"next", ToString(k + 1)>>

NoPage == [value |-> <<>>, nextLink |-> NoLink]

\* Retry-After header (RFC 9110): absent, delay-seconds, or an HTTP-date;
\* or present with an empty value.
NoHeader == [present |-> FALSE, text |-> <<>>]
RetryAfterValues ==
    {NoHeader} \cup
    {[present |-> TRUE, text |-> t] : t \in {<<>>, <<"2">>, <<"W", "e", "d">>}}

SeqsUpTo(S, n) == UNION {[1..k -> S] : k \in 0..n}

ItemsFor(kind) == IF kind = "drives" THEN DriveItems ELSE ChildItems

\* requests.get raised instead of returning a response (network error)
NetworkError == 0

\* Responses to a GET that does not succeed.
FailResponses ==
    {[status |-> s, retry_after |-> h, body |-> NoPage] :
        s \in (StatusCodes \ RETRY_STATUS_CODES) \ {200}, h \in {NoHeader}}
    \cup {[status |-> s, retry_after |-> h, body |-> NoPage] :
        s \in RETRY_STATUS_CODES, h \in RetryAfterValues}
    \cup {[status |-> NetworkError, retry_after |-> NoHeader, body |-> NoPage]}

\* Pages the server may answer a listing with, after `n` items on `k` pages.
PagesFor(kind, n, k) ==
    {[value |-> v, nextLink |-> l] :
        v \in SeqsUpTo(ItemsFor(kind), MaxItems - n),
        l \in IF k + 1 < MaxPages THEN {LinkOf(k + 1), NoLink} ELSE {NoLink}}

\* A page without items whose continuation link is the URL it was just
\* requested with: the server sends the client round in a circle.
LoopPages(kind, k, current) ==
    IF kind = "children" /\ k + 1 < MaxPages
    THEN {[value |-> <<>>, nextLink |-> current]}
    ELSE {}

OkResponses(kind, n, k, current) ==
    {[status |-> 200, retry_after |-> NoHeader, body |-> p] :
        p \in PagesFor(kind, n, k) \cup LoopPages(kind, k, current)}

\* --------------------------------------------------------------- outcomes
NoOutcome == [kind |-> "none", err |-> None, val |-> <<>>]
Return(v) == [kind |-> "return", err |-> None, val |-> v]
Raise(e) == [kind |-> "raise", err |-> e, val |-> <<>>]

\* ------------------------------------------------------- the fetcher, pure
\* Response.raise_for_status(): raises HTTPError for 4xx and 5xx.
raise_for_status(status) == 400 <= status /\ status < 600

\* `if retry_after:` on headers.get("Retry-After")
Truthy(h) == h.present /\ h.text # <<>>

\* mutant: every 5xx is retried
IsRetryable_AnyServerError(status) ==
    status \in RETRY_STATUS_CODES \/ status >= 500

IsRetryable(status) == status \in RETRY_STATUS_CODES

RECURSIVE Pow2(_)
Pow2(n) == IF n = 0 THEN 1 ELSE 2 * Pow2(n - 1)

\* mutant: the backoff grows linearly and the jitter is doubled
RetryDelay_Linear(h, attempt, jitter) ==
    IF Truthy(h) THEN 1000 * int(h.text)
    ELSE BASE_DELAY * attempt + 2 * jitter

\* lines 107-113: the delay before the next attempt
RetryDelay(h, attempt, jitter) ==
    IF Truthy(h) THEN 1000 * int(h.text)
    ELSE BASE_DELAY * Pow2(attempt - 1) + jitter

\* `if attempt == MAX_RETRIES`
LastAttempt(attempt) == attempt = MAX_RETRIES

\* One iteration of the loop of _fetch_with_retry on response resp.
Attempt(resp, attempt, jitter) ==
    IF resp.status = NetworkError
    THEN [end |-> "raise", err |-> "ConnectionError", delay |-> 0]
    ELSE IF resp.status < 400
    THEN [end |-> "return", err |-> None, delay |-> 0]
    ELSE IF ~IsRetryable(resp.status) /\ raise_for_status(resp.status)
    THEN [end |-> "raise", err |-> "HTTPError", delay |-> 0]
    ELSE IF Truthy(resp.retry_after) /\ ~IntParses(resp.retry_after.text)
    THEN [end |-> "raise", err |-> "ValueError", delay |-> 0]
    ELSE IF LastAttempt(attempt) /\ raise_for_status(resp.status)
    THEN [end |-> "raise", err |-> "HTTPError", delay |-> 0]
    ELSE [end |-> "sleep", err |-> None,
          delay |-> RetryDelay(resp.retry_after, attempt, jitter)]

\* _build_request_params: the query string, as tokens (top = 0 stands for
\* top=None)
Param(key, value) == IF value = None THEN <<>> ELSE <<<<key, value>>>>

build_request_params(o) ==
    LET params == Param("$select=", o.select) \o Param("$expand=", o.expand)
                  \o Param("$filter=", o.filter_) \o Param("$orderby=", o.orderby)
                  \o (IF o.top = 0 THEN <<>> ELSE <<<<"$top=", ToString(o.top)>>>>)
        RECURSIVE Join(_)
        Join(ps) == IF Len(ps) = 0 THEN <<>>
                    ELSE IF Len(ps) = 1 THEN ps[1]
                    ELSE ps[1] \o <<"&">> \o Join(Tail(ps))
    IN IF Len(params) = 0 THEN <<>> ELSE <<"?">> \o Join(params)

\* `top or self.page_size` (0 stands for None)
EffectiveTop(top) == IF top = 0 THEN page_size ELSE top

\* mutant: the query options are appended to the continuation link too
FetchTarget_Reappend(initial, next_link, base, o) ==
    (IF ~initial /\ next_link # NoLink THEN next_link ELSE base)
    \o build_request_params([o EXCEPT !.top = EffectiveTop(o.top)])

\* _fetch: the URL of the next request of a paginated fetch
FetchTarget(initial, next_link, base, o) ==
    IF ~initial /\ next_link # NoLink
    THEN next_link
    ELSE base \o build_request_params([o EXCEPT !.top = EffectiveTop(o.top)])

\* requests.get(url, ...) inside the retry loop: every attempt uses `url`
AttemptTarget(current, base) == current

NoOpts == [select |-> None, expand |-> None, filter_ |-> None,
           orderby |-> None, top |-> 0]

\* ------------------------------------------------------ the Graph backend
\* Methods GraphFileClient defines, and those of them that do not raise
\* NotImplementedError.
GraphImplemented == {"list_files_in_folder", "list_folders_in_folder",
                     "download_file", "upload_file"}
GraphUnimplemented == {"recursively_list_files", "recursively_list_folders",
                       "move_file_to_folder", "rename_file", "recycle_file",
                       "create_folder_if_not_exists"}
GraphMethods == GraphImplemented \cup GraphUnimplemented
                \cup {"folder_exists"}

\* The operations of the FileClient protocol.
FileClientOps == GraphImplemented \cup GraphUnimplemented
                 \cup {"test_folder_existence"}

\* What the caller may call on SharePointClient.files: the protocol, and on
\* a bare backend its public folder_exists.
CallableOps(b) == IF b = "auto" THEN FileClientOps
                  ELSE FileClientOps \cup {"folder_exists"}

\* raise ValueError("The destination folder does not exist.")
FolderMissing == "ValueError: The destination folder does not exist."

\* `len(file_content) > 250 * 1024 * 1024`
GraphUploadLimit == 250 * 1024 * 1024
\* mutant: a file of exactly the cap is rejected too
GraphTooLarge_AtCap(size) == size >= GraphUploadLimit

GraphTooLarge(size) == size > GraphUploadLimit

\* get_library_id_from_url: the test a drive is selected by
LibraryName(server_relative_url) == FirstSegment(strip(server_relative_url))

DriveMatches(server_relative_url, item) ==
    LET library_name == LibraryName(server_relative_url)
        library_url == quote(library_name)
    IN IsSubstring(library_url, item.webUrl)
       \/ IsSubstring(library_name, item.name)

DrivesUrl(site) == <<"sites/", site, "/drives">>

\* https://graph.microsoft.com/v1.0/drives/{drive_id}/root{path_segment}/children
ChildrenUrl(drive, relative_path) ==
    <<"drives/", drive, "/root">>
    \o (IF relative_path # <<>> THEN <<":/">> \o relative_path \o <<":">>
        ELSE <<>>)
    \o <<"/children">>

\* .../drives/{drive_id}/root:/{relative_path}
FolderUrl(drive, relative_path) ==
    <<"drives/", drive, "/root:/">> \o relative_path

\* .../drives/{drive_id}/root:/{relative_path}:/content
ContentUrl(drive, relative_path) ==
    <<"drives/", drive, "/root:/">> \o relative_path \o <<":/content">>

\* .../drives/{drive_id}/root:/{relative_path}/{file_name}:/content
UploadUrl(drive, relative_path, file_name) ==
    <<"drives/", drive, "/root:/">> \o relative_path \o <<"/", file_name>>
    \o <<":/content">>

\* _map_file_properties / _map_folder_properties
map_file_properties(sp_file, keep_metadata) ==
    [name |-> sp_file.name, server_relative_url |-> None,
     extra |-> IF keep_metadata THEN <<sp_file>> ELSE <<>>]

\* the filter of the listing loops
ListsItem(op, item) ==
    IF op = "list_files_in_folder"
    THEN "file" \in item.keys \/ "listItem" \in item.keys
    ELSE "folder" \in item.keys

\* --------------------------------------------------------- the orchestrator
\* mutant: `except Exception`
ShouldFallBack_AnyError(outcome) == outcome.kind = "raise"

\* `except NotImplementedError`
ShouldFallBack(outcome) ==
    outcome.kind = "raise" /\ outcome.err = "NotImplementedError"

\* fallback(*args, **kwargs)
FallbackArgs(args) == args

\* what _call_with_fallback returns after the legacy call
FallbackResult(outcome) == outcome

\* ------------------------------------------------------ the legacy backend
\* `len(file_content) > 4 * 1024 * 1024`
LegacyUploadLimit == 4 * 1024 * 1024
LegacyTooLarge(size) == size > LegacyUploadLimit

\* Sizes of the local file a legacy upload reads.
LegacyFileSizes == {LegacyUploadLimit, LegacyUploadLimit + 1}

\* index of the last "/" of s, 0 when there is none
LastSlash(s) == IF \E i \in 1..Len(s) : s[i] = "/"
                THEN CHOOSE i \in 1..Len(s) :
                       s[i] = "/" /\ \A j \in (i + 1)..Len(s) : s[j] # "/"
                ELSE 0

\* mutant: the name is taken as it is
PathName_Whole(s) == s

\* Path(s).name: the last component, trailing separators dropped
PathName(s) == LET t == rstrip(s) IN SubSeq(t, LastSlash(t) + 1, Len(t))

\* `Path(new_file_name).name != new_file_name`
ContainsPath(new_file_name) == PathName(new_file_name) # new_file_name

\* raise ValueError("new_file_name should not contain a path.")
NameHasPath == "ValueError: new_file_name should not contain a path."

\* execute_query_with_incremental_retry raised
QueryError == Raise("ClientRequestException")

\* Files and folders as the SharePoint REST service returns them.
LegacyFile == [name |-> "lf", url |-> "/D/lf"]
LegacyFolder == [name |-> "lg", url |-> "/D/lg"]

\* LegacyFileClient._map_file_properties / _map_folder_properties
legacy_map_properties(sp_item, keep_metadata) ==
    [name |-> sp_item.name, server_relative_url |-> sp_item.url,
     extra |-> IF keep_metadata THEN <<sp_item>> ELSE <<>>]

\* One run of a legacy method: how it ended, the queries it executed against
\* the service, in order, and the size of the local file it read.
LegacyRunOf(outcome, requests) ==
    [outcome |-> outcome, requests |-> requests, size |-> 0]

\* The queries qs are executed in order and each may raise; when all succeed
\* the method ends with one of `ends`.
LegacyQueries(qs, ends) ==
    {LegacyRunOf(QueryError, SubSeq(qs, 1, k)) : k \in 1..Len(qs)}
    \cup {LegacyRunOf(e, qs) : e \in ends}

\* list_files_in_folder, list_folders_in_folder
legacy_list(sp_item, keep_metadata) ==
    LegacyQueries(<<"list">>,
                  {Return(<<>>),
                   Return(<<legacy_map_properties(sp_item, keep_metadata)>>)})

\* mutant: the folder is tested after the upload
legacy_upload_file_CheckLast(args) ==
    {[outcome |-> Raise(FolderMissing),
      requests |-> <<"get_folder", "upload_file", "folder_exists">>,
      size |-> LegacyUploadLimit]}

\* LegacyFileClient.upload_file
legacy_upload_file(args) ==
    UNION {
      IF LegacyTooLarge(size)
      THEN {[outcome |-> Raise("RuntimeError"), requests |-> <<>>,
             size |-> size]}
      ELSE {[r EXCEPT !.size = size] :
              r \in {LegacyRunOf(Raise(FolderMissing), <<"folder_exists">>)}
                    \cup LegacyQueries(
                           <<"folder_exists", "get_folder", "upload_file">>,
                           {Return(<<legacy_map_properties(
                                       [name |-> args.source_file_path,
                                        url |-> "/D/in"], TRUE)>>)})}
      : size \in LegacyFileSizes}

\* LegacyFileClient.rename_file
legacy_rename_file(args) ==
    IF ContainsPath(args.new_file_name)
    THEN {LegacyRunOf(Raise(NameHasPath), <<>>)}
    ELSE LegacyQueries(<<"rename">>, {Return(<<>>)})

\* The folders of a library on the SharePoint service, by server-relative
\* URL; "/D" is the folder a recursive listing starts at.
Folders == {"/D", "/D/g", "/D/g/k", "/D/h"}

SpFolder(url) == [name |-> url, url |-> url]
SpFile(folder, name) == [name |-> name, url |-> <<folder, name>>]

\* a folder without subfolders that holds the files `names`
Leaf(folder, names) ==
    [folders |-> <<>>,
     files |-> [i \in 1..Len(names) |-> SpFile(folder, names[i])]]

\* a library without any folder or file
EmptyTree == [f \in Folders |-> Leaf(f, <<>>)]

\* /D holds a, c and the folders g and h; g holds b and the folder k; k is
\* empty; h holds d and e
DeepTree ==
    [EmptyTree EXCEPT
       !["/D"] = [folders |-> <<SpFolder("/D/g"), SpFolder("/D/h")>>,
                  files |-> <<SpFile("/D", "a"), SpFile("/D", "c")>>],
       !["/D/g"] = [folders |-> <<SpFolder("/D/g/k")>>,
                    files |-> <<SpFile("/D/g", "b")>>],
       !["/D/h"] = Leaf("/D/h", <<"d", "e">>)]

\* Folder trees the service may hold.
Trees ==
    {EmptyTree,
     [EmptyTree EXCEPT !["/D"] = Leaf("/D", <<"a">>)],
     [EmptyTree EXCEPT
        !["/D"] = [folders |-> <<SpFolder("/D/h")>>,
                   files |-> <<SpFile("/D", "a")>>],
        !["/D/h"] = Leaf("/D/h", <<"d">>)],
     DeepTree}

\* the items of a listing, mapped
legacy_map_all(sp_items, keep_metadata) ==
    [i \in 1..Len(sp_items) |->
        legacy_map_properties(sp_items[i], keep_metadata)]

\* mutant: the files of the folder come before those of its subfolders
RECURSIVE recursively_list_files_OwnFirst(_, _, _)
recursively_list_files_OwnFirst(tree, folder_url, keep_metadata) ==
    LET folders == tree[folder_url].folders
        RECURSIVE below(_)
        below(i) ==
            IF i > Len(folders) THEN [val |-> <<>>, requests |-> <<>>]
            ELSE LET sub == recursively_list_files_OwnFirst(
                                tree, folders[i].url, keep_metadata)
                     rest == below(i + 1)
                 IN [val |-> sub.val \o rest.val,
                     requests |-> sub.requests \o rest.requests]
    IN [val |-> legacy_map_all(tree[folder_url].files, keep_metadata)
                \o below(1).val,
        requests |-> <<"list">> \o <<"list">> \o below(1).requests]

\* LegacyFileClient.recursively_list_files when no query fails: what it
\* returns and the queries it executes, in order
RECURSIVE recursively_list_files(_, _, _)
recursively_list_files(tree, folder_url, keep_metadata) ==
    LET folders == tree[folder_url].folders
        RECURSIVE below(_)
        below(i) ==
            IF i > Len(folders) THEN [val |-> <<>>, requests |-> <<>>]
            ELSE LET sub == recursively_list_files(
                                tree, folders[i].url, keep_metadata)
                     rest == below(i + 1)
                 IN [val |-> sub.val \o rest.val,
                     requests |-> sub.requests \o rest.requests]
    IN [val |-> below(1).val
                \o legacy_map_all(tree[folder_url].files, keep_metadata),
        requests |-> <<"list">> \o below(1).requests \o <<"list">>]

\* LegacyFileClient.recursively_list_folders when no query fails
RECURSIVE recursively_list_folders(_, _, _)
recursively_list_folders(tree, folder_url, keep_metadata) ==
    LET folders == tree[folder_url].folders
        RECURSIVE below(_)
        below(i) ==
            IF i > Len(folders) THEN [val |-> <<>>, requests |-> <<>>]
            ELSE LET sub == recursively_list_folders(
                                tree, folders[i].url, keep_metadata)
                     rest == below(i + 1)
                 IN [val |-> sub.val \o rest.val,
                     requests |-> sub.requests \o rest.requests]
    IN [val |-> below(1).val \o legacy_map_all(folders, keep_metadata),
        requests |-> <<"list">> \o below(1).requests \o <<"list">>]

\* the trees a call of `op` may meet
TreesFor(op) ==
    IF op \in {"recursively_list_files", "recursively_list_folders"}
    THEN Trees ELSE {EmptyTree}

\* The methods of LegacyFileClient.
legacy_method(op, args, tree) ==
    CASE op = "list_files_in_folder" ->
           legacy_list(LegacyFile, args.keep_metadata)
      [] op = "list_folders_in_folder" ->
           legacy_list(LegacyFolder, args.keep_metadata)
      [] op = "recursively_list_files" ->
           LET run == recursively_list_files(tree, "/D", args.keep_metadata)
           IN LegacyQueries(run.requests, {Return(run.val)})
      [] op = "recursively_list_folders" ->
           LET run == recursively_list_folders(tree, "/D", args.keep_metadata)
           IN LegacyQueries(run.requests, {Return(run.val)})
      [] op = "download_file" ->
           LegacyQueries(<<"get_file", "download">>, {Return(<<>>)})
      [] op = "upload_file" -> legacy_upload_file(args)
      [] op = "move_file_to_folder" ->
           LegacyQueries(<<"moveto">>,
                         {Return(<<legacy_map_properties(LegacyFile, TRUE)>>)})
      [] op = "rename_file" -> legacy_rename_file(args)
      [] op = "recycle_file" -> LegacyQueries(<<"recycle">>, {Return(<<>>)})
      [] op = "create_folder_if_not_exists" ->
           LegacyQueries(<<"folder_exists", "get_folder">>,
                         {Return(<<legacy_map_properties(LegacyFolder, TRUE)>>)})
           \cup LegacyQueries(<<"folder_exists", "ensure_folder_path">>,
                         {Return(<<legacy_map_properties(LegacyFolder, TRUE)>>)})
      [] OTHER ->
           LegacyQueries(<<"folder_exists">>,
                         {Return(<<"True">>), Return(<<"False">>)})

\* Query options a caller of the Graph backend passes.
SomeOpts == [select |-> "id,name", expand |-> None, filter_ |-> "f",
             orderby |-> None, top |-> 50]

\* New names a caller renames a file to: "n", "x/n", "n/".
NewNames == {<<"n">>, <<"x", "/", "n">>, <<"n", "/">>}

\* Arguments the caller passes, per operation and backend.  The
\* orchestrator's listing methods take no query options.
ArgsOf(op, b) ==
    CASE op \in {"list_files_in_folder", "list_folders_in_folder"} ->
           IF b = "graph"
           THEN {[folder_url |-> PathFolder, keep_metadata |-> FALSE,
                  opts |-> SomeOpts]}
           ELSE IF op = "list_files_in_folder"
           THEN {[folder_url |-> PathLibrary, keep_metadata |-> FALSE,
                  opts |-> NoOpts],
                 [folder_url |-> PathFolder, keep_metadata |-> TRUE,
                  opts |-> NoOpts]}
           ELSE {[folder_url |-> PathFolder, keep_metadata |-> FALSE,
                  opts |-> NoOpts]}
      [] op \in {"recursively_list_files", "recursively_list_folders"} ->
           {[folder_url |-> PathLibrary, keep_metadata |-> k] :
               k \in BOOLEAN}
      [] op = "download_file" ->
           {[source_url |-> PathFolder, destination_file_path |-> "out"]}
      [] op = "upload_file" ->
           {[source_file_path |-> "in", destination_url |-> PathFolder]}
      [] op = "move_file_to_folder" ->
           {[source_file_url |-> PathFolder,
             destination_folder_url |-> PathLibrary, overwrite |-> w] :
               w \in BOOLEAN}
      [] op = "rename_file" ->
           {[file_url |-> PathFolder, new_file_name |-> n] : n \in NewNames}
      [] op = "recycle_file" -> {[file_url |-> PathFolder]}
      [] OTHER -> {[folder_url |-> PathLibrary], [folder_url |-> PathFolder]}

\* Sizes of the local file an upload reads.
FileSizes == {GraphUploadLimit, GraphUploadLimit + 1}

NoCall == [op |-> None, args |-> <<>>]

\* ------------------------------------------------------ authentication
\* A keyword argument (or environment variable) that is not supplied.
Absent == "<absent>"

\* Strategy
Strategies == {"default", "cli", "managed_identity", "client_secret",
               "client_certificate", "interactive_browser",
               "username_password"}

\* Values of the fields of an AuthConfig: None is <<>>, a value carries its
\* type: str, SecretStr or Path.
NoValue == <<>>
Str(v) == <<"str", v>>

\* pydantic's parsing of one field of type `type | None`
ParseField(type, a, default) ==
    IF a = Absent THEN default
    ELSE IF a = None THEN NoValue
    ELSE <<type, a>>

\* bool(x) of a field: None and "" and SecretStr("") are falsy, a Path is
\* always truthy
TruthyField(x) == x # NoValue /\ (x[1] = "Path" \/ x[2] # "")

\* SecretStr.get_secret_value()
get_secret_value(x) == Str(x[2])

\* Files that exist on disk.
ExistingPaths == {"cert.pem", "token.jwt"}

\* mutant: a missing path is accepted
ensure_existing_path_Never(v) == FALSE

\* _ensure_existing_path raises: `v is not None and not v.exists()`
ensure_existing_path(v) == v # NoValue /\ v[2] \notin ExistingPaths

\* Arguments AuthConfig is constructed from.
AuthKwargs ==
    [strategy : Strategies,
     tenant_id : {Absent, "t"},
     client_id : {Absent, "c"},
     client_secret : {Absent, "s"},
     certificate_path : {Absent, "nope.pem", "cert.pem"},
     certificate_password : {Absent, "", "pw"},
     federated_token_file : {Absent, "nope.jwt", "token.jwt"},
     username : {Absent, "user"},
     password : {Absent, "pw"},
     redirect_uri : {Absent, None, "http://app"},
     authority : {Absent, "https://login"}]

\* The kwargs of AuthConfig(): every field at its default.
NoKwargs ==
    [strategy |-> "default", tenant_id |-> Absent, client_id |-> Absent,
     client_secret |-> Absent, certificate_path |-> Absent,
     certificate_password |-> Absent, federated_token_file |-> Absent,
     username |-> Absent, password |-> Absent, redirect_uri |-> Absent,
     authority |-> Absent]

\* The fields of AuthConfig after parsing, with their defaults.
ParseConfig(kw) ==
    [strategy |-> kw.strategy,
     tenant_id |-> ParseField("str", kw.tenant_id, NoValue),
     client_id |-> ParseField("str", kw.client_id, NoValue),
     client_secret |-> ParseField("SecretStr", kw.client_secret, NoValue),
     certificate_path |-> ParseField("Path", kw.certificate_path, NoValue),
     certificate_password |->
         ParseField("SecretStr", kw.certificate_password, NoValue),
     federated_token_file |->
         ParseField("Path", kw.federated_token_file, NoValue),
     username |-> ParseField("Path", kw.username, NoValue),
     password |-> ParseField("SecretStr", kw.password, NoValue),
     redirect_uri |->
         ParseField("str", kw.redirect_uri, Str("http://localhost:8400")),
     authority |-> ParseField("str", kw.authority, NoValue)]

\* mutant: username_password does not ask for the client secret
RequiredFields_NoClientSecret(s) ==
    CASE s = "client_secret" -> {"tenant_id", "client_id", "client_secret"}
      [] s = "client_certificate" ->
           {"tenant_id", "client_id", "certificate_path"}
      [] s = "username_password" ->
           {"tenant_id", "client_id", "username", "password"}
      [] s = "interactive_browser" ->
           {"tenant_id", "client_id", "redirect_uri"}
      [] OTHER -> {}

\* _cross_field_validation: the fields that must be truthy, per strategy
RequiredFields(s) ==
    CASE s = "client_secret" -> {"tenant_id", "client_id", "client_secret"}
      [] s = "client_certificate" ->
           {"tenant_id", "client_id", "certificate_path"}
      [] s = "username_password" ->
           {"tenant_id", "client_id", "username", "password",
            "client_secret"}
      [] s = "interactive_browser" ->
           {"tenant_id", "client_id", "redirect_uri"}
      [] OTHER -> {}

\* _cross_field_validation raises
cross_field_validation(cfg) ==
    \E f \in RequiredFields(cfg.strategy) : ~TruthyField(cfg[f])

NoAuth == [kind |-> "none", err |-> <<>>, cfg |-> ParseConfig(NoKwargs)]
AuthError(e) == [kind |-> "error", err |-> e, cfg |-> ParseConfig(NoKwargs)]

\* AuthConfig(**kw): the field validators, then the model validator
AuthConfig(kw) ==
    LET cfg == ParseConfig(kw) IN
    IF ensure_existing_path(cfg.certificate_path)
       \/ ensure_existing_path(cfg.federated_token_file)
    THEN AuthError(<<"Path does not exist">>)
    ELSE IF cross_field_validation(cfg)
    THEN AuthError(<<cfg.strategy, "requires">>)
    ELSE [kind |-> "config", err |-> <<>>, cfg |-> cfg]

\* An argument a credential's constructor is not called with.
NotPassed == <<"not passed">>

NoCredential ==
    [kind |-> "none", tenant_id |-> NotPassed, client_id |-> NotPassed,
     client_secret |-> NotPassed, certificate_path |-> NotPassed,
     password |-> NotPassed, username |-> NotPassed,
     redirect_uri |-> NotPassed, client_credentials |-> NotPassed,
     authority |-> NotPassed]

\* `x.get_secret_value() if x else None`
SecretOrNone(x) == IF TruthyField(x) THEN get_secret_value(x) ELSE NoValue

\* str(cfg.certificate_path)
StrOfPath(x) == IF x = NoValue THEN Str("None") ELSE Str(x[2])

\* `match cfg.strategy`
CredentialKind(s) ==
    CASE s = "cli" -> "AzureCliCredential"
      [] s = "managed_identity" -> "ManagedIdentityCredential"
      [] s = "client_secret" -> "ClientSecretCredential"
      [] s = "client_certificate" -> "CertificateCredential"
      [] s = "interactive_browser" -> "InteractiveBrowserCredential"
      [] s = "username_password" -> "UsernamePasswordCredential"
      [] OTHER -> "DefaultAzureCredential"

\* get_credential(cfg)
credential_of(cfg) ==
    LET k == CredentialKind(cfg.strategy)
        base == [NoCredential EXCEPT !.kind = k, !.authority = cfg.authority]
    IN CASE k = "ManagedIdentityCredential" ->
              [base EXCEPT !.client_id = cfg.client_id]
         [] k = "ClientSecretCredential" ->
              IF cfg.client_secret = NoValue
              THEN [NoCredential EXCEPT !.kind = "AttributeError"]
              ELSE [base EXCEPT !.tenant_id = cfg.tenant_id,
                                !.client_id = cfg.client_id,
                                !.client_secret =
                                    get_secret_value(cfg.client_secret)]
         [] k = "CertificateCredential" ->
              [base EXCEPT !.tenant_id = cfg.tenant_id,
                           !.client_id = cfg.client_id,
                           !.certificate_path = StrOfPath(cfg.certificate_path),
                           !.password = SecretOrNone(cfg.certificate_password)]
         [] k = "InteractiveBrowserCredential" ->
              [base EXCEPT !.tenant_id = cfg.tenant_id,
                           !.client_id = cfg.client_id,
                           !.redirect_uri = cfg.redirect_uri]
         [] k = "UsernamePasswordCredential" ->
              [base EXCEPT !.tenant_id = cfg.tenant_id,
                           !.client_id = cfg.client_id,
                           !.username = cfg.username,
                           !.password = SecretOrNone(cfg.password),
                           !.client_credentials =
                               SecretOrNone(cfg.client_secret)]
         [] OTHER -> base

\* ------------------------------------------------------------------ scopes
\* The characters site URLs are written with here: letters in both cases, a
\* digit, and the delimiters ":", "/", "?", "#" and ".".
IsAlpha(c) == c \in {"h", "H", "p", "q"}

\* urllib.parse.scheme_chars
SchemeChar(c) == IsAlpha(c) \/ c \in {"1", "+", "-", "."}

\* str.lower()
LowerChar(c) == IF c = "H" THEN "h" ELSE c
lower(s) == [i \in 1..Len(s) |-> LowerChar(s[i])]

\* index of the first character of s at or after `from` that is in `set`,
\* Len(s) + 1 when there is none
FirstOf(s, from, set) ==
    IF \E i \in from..Len(s) : s[i] \in set
    THEN CHOOSE i \in from..Len(s) :
            s[i] \in set /\ \A j \in from..(i - 1) : s[j] \notin set
    ELSE Len(s) + 1

\* urlparse(url): the scheme is what stands before the first ":" when it
\* starts with a letter and consists of scheme characters, in lower case;
\* the netloc is what follows "//" up to the next "/", "?" or "#"
urlparse(url) ==
    LET i == FirstOf(url, 1, {":"})
        has_scheme == /\ 1 < i /\ i <= Len(url)
                      /\ IsAlpha(url[1])
                      /\ \A j \in 1..(i - 1) : SchemeChar(url[j])
        rest == IF has_scheme THEN SubSeq(url, i + 1, Len(url)) ELSE url
        has_netloc == Len(rest) >= 2 /\ rest[1] = "/" /\ rest[2] = "/"
    IN [scheme |-> IF has_scheme THEN lower(SubSeq(url, 1, i - 1)) ELSE <<>>,
        netloc |-> IF has_netloc
                   THEN SubSeq(rest, 3, FirstOf(rest, 3, {"/", "?", "#"}) - 1)
                   ELSE <<>>]

\* mutant: a URL without a host is accepted
authority_from_url_AnyHost(site_url) ==
    LET parsed == urlparse(site_url) IN
    IF parsed.scheme = <<>>
    THEN Raise("ValueError")
    ELSE Return(parsed.scheme \o <<":", "/", "/">> \o parsed.netloc)

\* authority_from_url
authority_from_url(site_url) ==
    LET parsed == urlparse(site_url) IN
    IF parsed.scheme = <<>> \/ parsed.netloc = <<>>
    THEN Raise("ValueError")
    ELSE Return(parsed.scheme \o <<":", "/", "/">> \o parsed.netloc)

\* "/.default"
DefaultSuffix == <<"/", ".", "d", "e", "f", "a", "u", "l", "t">>

\* spo_scope_from_url: the exception of authority_from_url passes through
spo_scope_from_url(site_url) ==
    LET a == authority_from_url(site_url) IN
    IF a.kind = "raise" THEN a ELSE Return(a.val \o DefaultSuffix)

\* Site URLs a caller passes: a scheme or none, a separator or none, a host
\* or none, a path, a query or nothing.
SiteUrls ==
    {scheme \o sep \o host \o path :
        scheme \in {<<>>, <<"h">>, <<"H">>, <<"1", "h">>, <<"h", "1">>},
        sep \in {<<":", "/", "/">>, <<":", "/">>, <<":">>, <<"/", "/">>, <<>>},
        host \in {<<>>, <<"h">>, <<"H", ".", "h">>},
        path \in {<<>>, <<"/">>, <<"/", "p">>, <<"?", "q">>,
                  <<"/", "p", ":", "/", "/", "h">>}}

NoScope == [authority |-> NoOutcome, scope |-> NoOutcome]

\* ------------------------------------------------------------ certificate
\* Directories that exist: Path.write_bytes under any other raises.
Writable(path) == path \in {"c.crt", "k.key", "b.pem"}

\* Arguments of generate_self_signed_certificate: two of the seven subject
\* attributes vary, the other five are passed as None.
CertArgs ==
    [country_name : {None, "", "NL"},
     common_name : {None, "cn"},
     cert_path : {None, "c.crt", "nodir/c.crt"},
     key_path : {None, "k.key"},
     combined_pem_path : {None, "b.pem", "nodir/b.pem"}]

NoCertArgs ==
    [country_name |-> None, common_name |-> None, cert_path |-> None,
     key_path |-> None, combined_pem_path |-> None]

\* What a call did, in order, before it returned or raised.
KeyGenerated == [do |-> "generate_private_key", path |-> None, data |-> None]
Written(path, data) == [do |-> "write_bytes", path |-> path, data |-> data]

CertRun(outcome, effects) == [outcome |-> outcome, effects |-> effects]
NoCert == CertRun(NoOutcome, <<>>)

\* Path(p).write_bytes(data) for each <<p, data>> of `files`, in order,
\* stopping at the first that cannot be written
RECURSIVE write_all(_, _)
write_all(files, effects) ==
    IF files = <<>>
    THEN CertRun(Return(<<"cert_pem", "key_pem">>), effects)
    ELSE IF ~Writable(Head(files)[1])
    THEN CertRun(Raise("FileNotFoundError"), effects)
    ELSE write_all(Tail(files),
                   Append(effects, Written(Head(files)[1], Head(files)[2])))

\* the body of generate_self_signed_certificate from the key on
generate_and_write(a) ==
    LET attributes == {v \in {a.country_name, a.common_name} :
                          v # None /\ v # ""}
    IN IF attributes = {}
       THEN CertRun(Raise("ValueError"), <<KeyGenerated>>)
       ELSE IF a.combined_pem_path # None
       THEN write_all(<<<<a.combined_pem_path, "cert_pem+key_pem">>>>,
                      <<KeyGenerated>>)
       ELSE write_all(<<<<a.cert_path, "cert_pem">>,
                        <<a.key_path, "key_pem">>>>,
                      <<KeyGenerated>>)

\* mutant: the key is generated before the output selection is looked at
generate_self_signed_certificate_KeyFirst(a) ==
    LET separate_mode == a.cert_path # None /\ a.key_path # None
        combined_mode == a.combined_pem_path # None
    IN IF ~separate_mode /\ ~combined_mode
       THEN CertRun(Raise("ValueError"), <<KeyGenerated>>)
       ELSE generate_and_write(a)

\* generate_self_signed_certificate
generate_self_signed_certificate(a) ==
    LET separate_mode == a.cert_path # None /\ a.key_path # None
        combined_mode == a.combined_pem_path # None
    IN IF ~separate_mode /\ ~combined_mode
       THEN CertRun(Raise("ValueError"), <<>>)
       ELSE generate_and_write(a)

\* ------------------------------------------------- deprecated credentials
\* The deprecated keyword arguments of SharePointClient, each None unless
\* passed.
LegacyKwargs ==
    [username : {None, "user"},
     password : {None, "pw"},
     client_id : {None, "c"},
     client_secret : {None, "", "s"},
     interactive_auth : {None, "False", "True"},
     tenant_id : {None, "t"},
     thumbprint : {None, "tp"},
     certificate_path : {None, "nope.pem", "cert.pem"}]

NoLegacyKwargs ==
    [username |-> None, password |-> None, client_id |-> None,
     client_secret |-> None, interactive_auth |-> None, tenant_id |-> None,
     thumbprint |-> None, certificate_path |-> None]

\* bool(x) of a keyword argument
TruthyArg(x) == x \notin {None, "", "False"}

\* _auth_from_legacy_kwargs: the first of the numbered cases whose test
\* passes builds the AuthConfig; thumbprint is ignored
auth_from_legacy_kwargs(k) ==
    IF TruthyArg(k.interactive_auth) /\ TruthyArg(k.client_id)
       /\ TruthyArg(k.tenant_id)
    THEN AuthConfig([NoKwargs EXCEPT !.strategy = "interactive_browser",
                                     !.client_id = k.client_id,
                                     !.tenant_id = k.tenant_id])
    ELSE IF TruthyArg(k.client_id) /\ TruthyArg(k.client_secret)
            /\ TruthyArg(k.tenant_id)
    THEN AuthConfig([NoKwargs EXCEPT !.strategy = "client_secret",
                                     !.client_id = k.client_id,
                                     !.client_secret = k.client_secret,
                                     !.tenant_id = k.tenant_id])
    ELSE IF TruthyArg(k.client_id) /\ TruthyArg(k.tenant_id)
            /\ TruthyArg(k.certificate_path)
    THEN AuthConfig([NoKwargs EXCEPT !.strategy = "client_certificate",
                                     !.client_id = k.client_id,
                                     !.tenant_id = k.tenant_id,
                                     !.certificate_path = k.certificate_path])
    ELSE IF TruthyArg(k.username) /\ TruthyArg(k.password)
            /\ TruthyArg(k.client_id)
            /\ TruthyArg(k.client_secret) /\ TruthyArg(k.tenant_id)
    THEN AuthConfig([NoKwargs EXCEPT !.strategy = "username_password",
                                     !.client_id = k.client_id,
                                     !.client_secret = k.client_secret,
                                     !.tenant_id = k.tenant_id,
                                     !.username = k.username,
                                     !.password = k.password])
    ELSE IF TruthyArg(k.username) \/ TruthyArg(k.password)
    THEN AuthError(<<"ValueError", "Username/password without an app">>)
    ELSE AuthError(<<"ValueError", "Could not determine">>)

\* ------------------------------------------------------------------ state
VARIABLES
    kwargs,         \* the arguments AuthConfig is constructed from
    auth,           \* the AuthConfig, or the error of its construction
    credential,     \* what get_credential(auth) built
    site_url,       \* the site URL a scope is asked for
    scope,          \* what authority_from_url and spo_scope_from_url gave
    cert_args,      \* the arguments of generate_self_signed_certificate
    cert,           \* what that call did and how it ended
    legacy_kwargs,  \* the deprecated kwargs SharePointClient was given
    backend,        \* SharePointClient._backend; None before construction
    pc,             \* where the thread is
    token_calls,    \* calls of the Graph credential's get_token
    headers,        \* GraphFileClient._headers
    site_id,        \* GraphFileClient._site_id
    fell_back,      \* an earlier call on this client fell back to legacy
    call,           \* the call in progress (or the last one): [op, args]
    graph_calls,    \* invocations of the Graph backend by this call
    legacy_calls,   \* invocations of the legacy backend by this call
    graph_outcome,  \* how the Graph method ended
    legacy_outcome, \* how the legacy method ended
    legacy_requests,\* the queries the legacy method executed, in order
    remote,         \* the folder tree the legacy method met on the service
    result,         \* what the caller got
    phase,          \* the step of the Graph method a drive is resolved for
    file_size,      \* len(file_content) of upload_file
    drive_id,       \* result of get_library_id_from_url
    items,          \* the list a listing method is building
    purpose,        \* what the paginated fetch lists: "drives" or "children"
    request_url,    \* _paged_fetch: request_url
    opts,           \* _paged_fetch: select, expand, filter_, orderby, top
    url,            \* the URL of the request in progress
    is_initial,     \* _paged_fetch: is_initial
    attempt,        \* _fetch_with_retry: attempt
    delay,          \* _fetch_with_retry: delay of this loop iteration
    retry_after,    \* _fetch_with_retry: retry_after of this loop iteration
    page,           \* _paged_fetch: page
    idx,            \* position of the generator inside page["value"]
    page_number,    \* _paged_fetch: page_number
    last_get,       \* the URL of the last GET of this paginated fetch
    nsleeps,        \* time.sleep calls of this _fetch_with_retry call
    yielded,        \* items this paginated fetch has yielded, in order
    served,         \* pages this paginated fetch has received, in order
    all_retryable,  \* every response to this _fetch_with_retry call had a
                    \* status in RETRY_STATUS_CODES
    req             \* the HTTP request in progress (or the last one): its
                    \* kind, the attempts made for it, the status of the
                    \* response being handled

urlVars == <<site_url, scope>>
certVars == <<cert_args, cert>>
utilVars == <<urlVars, certVars, legacy_kwargs>>
authVars == <<kwargs, auth, credential, utilVars>>
clientVars == <<backend, token_calls, headers, site_id, authVars>>
endVars == <<graph_outcome, legacy_calls, fell_back, result>>
legacyVars == <<legacy_outcome, legacy_requests, remote>>
callVars == <<call, graph_calls, legacyVars, endVars>>
opVars == <<phase, file_size, drive_id, items>>
pageVars == <<purpose, request_url, opts, is_initial, page, idx, page_number,
              yielded, served>>
retryVars == <<attempt, delay, retry_after, nsleeps, all_retryable>>
vars == <<clientVars, callVars, opVars, pageVars, retryVars, url, last_get, req, pc>>

NoReq == [kind |-> None, tries |-> 0, status |-> 0]

\* mutant: the attempts of the page before count against the next page
EnterRetry_KeepAttempt ==
    /\ attempt' = attempt
    /\ delay' = 0
    /\ retry_after' = NoHeader
    /\ nsleeps' = 0
    /\ all_retryable' = TRUE

\* the locals of a _fetch_with_retry call at its entry
EnterRetry ==
    /\ attempt' = 1
    /\ delay' = 0
    /\ retry_after' = NoHeader
    /\ nsleeps' = 0
    /\ all_retryable' = TRUE

\* the first next() of the generator _paged_fetch(base, **o): up to its
\* first request
StartFetch(kind, base, o) ==
    /\ purpose' = kind
    /\ request_url' = base
    /\ opts' = o
    /\ is_initial' = TRUE
    /\ url' = FetchTarget(TRUE, NoLink, base, o)
    /\ page' = NoPage
    /\ idx' = 1
    /\ page_number' = 0
    /\ last_get' = <<>>
    /\ yielded' = <<>>
    /\ served' = <<>>
    /\ req' = [kind |-> kind, tries |-> 0, status |-> 0]
    /\ EnterRetry
    /\ pc' = "get"

\* no fetch in progress
IdleFetch ==
    /\ purpose' = None
    /\ request_url' = <<>>
    /\ opts' = NoOpts
    /\ is_initial' = TRUE
    /\ url' = <<>>
    /\ page' = NoPage
    /\ idx' = 1
    /\ page_number' = 0
    /\ last_get' = <<>>
    /\ yielded' = <<>>
    /\ served' = <<>>
    /\ req' = NoReq
    /\ EnterRetry

ClientInit ==
    /\ backend = None
    /\ pc = "new"
    /\ token_calls = 0
    /\ headers = <<>>
    /\ site_id = None
    /\ fell_back = FALSE
    /\ call = NoCall
    /\ graph_calls = <<>>
    /\ legacy_calls = <<>>
    /\ graph_outcome = NoOutcome
    /\ legacy_outcome = NoOutcome
    /\ legacy_requests = <<>>
    /\ remote = EmptyTree
    /\ result = NoOutcome
    /\ phase = None
    /\ file_size = 0
    /\ drive_id = None
    /\ items = <<>>
    /\ purpose = None
    /\ request_url = <<>>
    /\ opts = NoOpts
    /\ is_initial = TRUE
    /\ url = <<>>
    /\ page = NoPage
    /\ idx = 1
    /\ page_number = 0
    /\ last_get = <<>>
    /\ yielded = <<>>
    /\ served = <<>>
    /\ req = NoReq
    /\ attempt = 1
    /\ delay = 0
    /\ retry_after = NoHeader
    /\ nsleeps = 0
    /\ all_retryable = TRUE

\* Before SharePointClient is constructed; the AuthConfig it is given is
\* left open here.
UrlIdle ==
    /\ site_url = <<>>
    /\ scope = NoScope

CertIdle ==
    /\ cert_args = NoCertArgs
    /\ cert = NoCert

UtilIdle ==
    /\ UrlIdle
    /\ CertIdle
    /\ legacy_kwargs = NoLegacyKwargs

Init ==
    /\ kwargs = NoKwargs
    /\ auth = NoAuth
    /\ credential = NoCredential
    /\ UtilIdle
    /\ ClientInit

\* The arguments of an AuthConfig are chosen, nothing is constructed yet.
AuthInit ==
    /\ kwargs \in AuthKwargs
    /\ auth = NoAuth
    /\ credential = NoCredential
    /\ UtilIdle
    /\ ClientInit

\* ------------------------------------------------------------ construction
\* mutant: the token is requested a second time
refresh_token_Again(n) == n + 2

\* _refresh_token: one more call of the credential's get_token
refresh_token(n) == n + 1

\* {"Authorization": f"Bearer {token}"}
BearerHeader == <<"Authorization", "Bearer token">>

\* SharePointClient.__init__ -> _create_file_backend; for "graph" and "auto"
\* GraphFileClient.__init__ up to the call of get_site_id.
SharePointClient_init ==
    /\ pc = "new"
    /\ \E b \in {"graph", "legacy", "auto"} :
         /\ backend' = b
         /\ IF b = "legacy"
            THEN /\ pc' = "idle"
                 /\ UNCHANGED <<token_calls, headers>>
            ELSE /\ token_calls' = refresh_token(token_calls)
                 /\ headers' = BearerHeader
                 /\ pc' = "site"
    /\ UNCHANGED <<authVars, site_id, callVars, opVars, pageVars, retryVars, url, last_get,
                   req>>

\* an outcome of one plain requests call: the status, or a network error
PlainStatuses == StatusCodes \cup {NetworkError}

\* requests.get / requests.put followed by raise_for_status()
PlainError(status) ==
    IF status = NetworkError THEN "ConnectionError"
    ELSE IF raise_for_status(status) THEN "HTTPError"
    ELSE None

\* GraphFileClient.get_site_id, the last step of __init__
get_site_id ==
    /\ pc = "site"
    /\ \E status \in PlainStatuses :
         /\ req' = [kind |-> "site", tries |-> 1, status |-> status]
         /\ url' = <<"sites/", "host:/site">>
         /\ IF PlainError(status) # None
            THEN /\ result' = Raise(PlainError(status))
                 /\ pc' = "failed"
                 /\ UNCHANGED site_id
            ELSE /\ site_id' = "site-1"
                 /\ pc' = "idle"
                 /\ UNCHANGED result
    /\ UNCHANGED <<authVars, backend, token_calls, headers, call, graph_calls,
                   legacy_calls, graph_outcome, legacyVars, fell_back,
                   opVars, pageVars, retryVars, last_get>>

\* ----------------------------------------------------------------- a call
\* hasattr(GraphFileClient, op)
HasGraphMethod(op) == op \in GraphMethods

\* primary(*args, **kwargs)
PrimaryArgs(args) == args

\* The caller calls an operation of the FileClient protocol on
\* SharePointClient.files.  With backend "auto" this is the method of
\* FallbackFileClient up to the call of the Graph method: its arguments
\* self._graph.<op> and self._legacy.<op> are evaluated first.
Call ==
    /\ pc = "idle"
    /\ \E op \in CallableOps(backend) : \E args \in ArgsOf(op, backend) :
         /\ call' = [op |-> op, args |-> args]
         /\ IF backend = "legacy"
            THEN /\ legacy_calls' = <<[op |-> op, args |-> args]>>
                 /\ graph_calls' = <<>>
                 /\ result' = NoOutcome
                 /\ pc' = "legacy"
            ELSE IF HasGraphMethod(op)
            THEN /\ graph_calls' = <<[op |-> op, args |-> PrimaryArgs(args)]>>
                 /\ legacy_calls' = <<>>
                 /\ result' = NoOutcome
                 /\ pc' = "graph"
            ELSE /\ graph_calls' = <<>>
                 /\ legacy_calls' = <<>>
                 /\ result' = Raise("AttributeError")
                 /\ pc' = "done"
    /\ UNCHANGED <<clientVars, fell_back, graph_outcome, legacyVars, opVars,
                   pageVars, retryVars, url, last_get, req>>

\* The Graph method ends with outcome o.  With backend "auto" this is the
\* rest of _call_with_fallback: the legacy method is called when the
\* except clause matches; otherwise, and with backend "graph", the outcome
\* is the caller's.
EndGraph(o) ==
    /\ graph_outcome' = o
    /\ IF backend = "auto" /\ ShouldFallBack(o)
       THEN /\ legacy_calls' =
                 Append(legacy_calls,
                        [op |-> call.op, args |-> FallbackArgs(call.args)])
            /\ fell_back' = TRUE
            /\ pc' = "legacy"
            /\ UNCHANGED result
       ELSE /\ result' = o
            /\ pc' = "done"
            /\ UNCHANGED <<legacy_calls, fell_back>>

\* mutant: the method silently does nothing
unimplemented_noop(op) == Return(<<>>)

\* the body of each of these methods: raise NotImplementedError(...)
unimplemented(op) == Raise("NotImplementedError")

\* recursively_list_files, recursively_list_folders, move_file_to_folder,
\* rename_file, recycle_file, create_folder_if_not_exists
GraphNotImplemented ==
    /\ pc = "graph"
    /\ call.op \in GraphUnimplemented
    /\ EndGraph(unimplemented(call.op))
    /\ UNCHANGED <<clientVars, call, graph_calls, legacyVars, opVars,
                   pageVars, retryVars, url, last_get, req>>

\* the server-relative URL parse_server_relative_url is called with
ResolvedPath ==
    CASE call.op = "download_file" -> call.args.source_url
      [] call.op = "upload_file" -> call.args.destination_url
      [] OTHER -> call.args.folder_url

\* parse_server_relative_url -> get_library_id_from_url: the drives listing
StartResolve == StartFetch("drives", DrivesUrl(site_id), NoOpts)

\* list_files_in_folder, list_folders_in_folder, download_file and
\* folder_exists up to their first request
GraphResolveStart ==
    /\ pc = "graph"
    /\ call.op \in {"list_files_in_folder", "list_folders_in_folder",
                    "download_file", "folder_exists"}
    /\ phase' = CASE call.op = "download_file" -> "download"
                  [] call.op = "folder_exists" -> "probe"
                  [] OTHER -> "list"
    /\ StartResolve
    /\ UNCHANGED <<clientVars, callVars, file_size, drive_id, items>>

\* upload_file up to the first request of folder_exists
upload_file_start ==
    /\ pc = "graph"
    /\ call.op = "upload_file"
    /\ \E size \in FileSizes :
         /\ file_size' = size
         /\ IF GraphTooLarge(size)
            THEN /\ EndGraph(Raise("RuntimeError"))
                 /\ UNCHANGED <<phase, pageVars, retryVars, url, last_get, req>>
            ELSE /\ phase' = "probe"
                 /\ StartResolve
                 /\ UNCHANGED endVars
    /\ UNCHANGED <<clientVars, call, graph_calls, legacyVars, drive_id,
                   items>>

\* --------------------------------------------------------------- the fetcher
RECURSIVE Flatten(_)
Flatten(pages) == IF Len(pages) = 0 THEN <<>>
                  ELSE pages[1].value \o Flatten(Tail(pages))

\* mutant: the items collected before the failure are returned
fetch_raises_Partial(err, collected) == Return(collected)

\* an exception of _fetch_with_retry leaves the generator and the loop of
\* the method consuming it, neither has an except clause: what the method
\* collected so far is dropped
fetch_raises(err, collected) == Raise(err)

\* requests.get in _fetch_with_retry and the rest of that loop iteration,
\* up to its return, raise or sleep
Get ==
    /\ pc = "get"
    /\ \E resp \in FailResponses
                   \cup OkResponses(purpose, Len(Flatten(served)), Len(served),
                                     url) :
       \E jitter \in JitterValues :
         LET a == Attempt(resp, attempt, jitter) IN
         /\ last_get' = AttemptTarget(url, request_url)
         /\ req' = [req EXCEPT !.tries = @ + 1, !.status = resp.status]
         /\ retry_after' = resp.retry_after
         /\ all_retryable' = (all_retryable /\ IsRetryable(resp.status))
         /\ delay' = a.delay
         /\ IF a.end = "return"
            THEN /\ page' = resp.body
                 /\ served' = Append(served, resp.body)
                 /\ page_number' = IF is_initial THEN 1 ELSE page_number + 1
                 /\ is_initial' = FALSE
                 /\ idx' = 1
                 /\ pc' = "page"
                 /\ UNCHANGED endVars
            ELSE IF a.end = "raise"
            THEN /\ EndGraph(fetch_raises(a.err, items))
                 /\ UNCHANGED <<page, served, page_number, is_initial, idx>>
            ELSE /\ pc' = "sleep"
                 /\ UNCHANGED <<page, served, page_number, is_initial, idx,
                                endVars>>
    /\ UNCHANGED <<clientVars, call, graph_calls, legacyVars, opVars,
                   purpose, request_url, opts, yielded, attempt, nsleeps, url>>

\* `for attempt in range(1, MAX_RETRIES + 1)` is exhausted after `n`
LoopEnds(n) == n = MAX_RETRIES

\* time.sleep(delay) and the step of the loop of _fetch_with_retry; the
\* locals of the iteration that ends are dead from here on
Sleep ==
    /\ pc = "sleep"
    /\ nsleeps' = nsleeps + 1
    /\ delay' = 0
    /\ retry_after' = NoHeader
    /\ req' = [req EXCEPT !.status = 0]
    /\ IF LoopEnds(attempt)
       THEN /\ EndGraph(Raise("RuntimeError"))
            /\ UNCHANGED attempt
       ELSE /\ attempt' = attempt + 1
            /\ pc' = "get"
            /\ UNCHANGED endVars
    /\ UNCHANGED <<clientVars, call, graph_calls, legacyVars, opVars,
                   pageVars, all_retryable, url, last_get>>

\* mutant: the items of a page come out last first
PageItems_Reversed(p) ==
    [i \in 1..Len(p.value) |-> p.value[Len(p.value) + 1 - i]]

\* page.get("value", [])
PageItems(p) == p.value

\* `yield item`, and what the loop consuming the generator does with it
Yield ==
    /\ pc = "page"
    /\ idx <= Len(PageItems(page))
    /\ LET item == PageItems(page)[idx] IN
         /\ yielded' = Append(yielded, item)
         /\ idx' = idx + 1
         /\ IF purpose = "drives"
            THEN /\ IF DriveMatches(ResolvedPath, item)
                    THEN /\ drive_id' = item.id
                         /\ pc' = "resolved"
                    ELSE /\ UNCHANGED <<drive_id, pc>>
                 /\ UNCHANGED items
            ELSE /\ items' = IF ListsItem(call.op, item)
                             THEN Append(items, map_file_properties(item, TRUE))
                             ELSE items
                 /\ UNCHANGED <<drive_id, pc>>
    /\ UNCHANGED <<clientVars, callVars, phase, file_size, purpose, request_url,
                   opts, is_initial, page, page_number, served, retryVars, url,
                   last_get, req>>

\* mutant: a link that was just requested is not followed again
MorePages_Unvisited == page.nextLink # NoLink /\ page.nextLink # last_get

\* `if not next_link: break` does not break
MorePages == page.nextLink # NoLink

\* the end of a page: `if not next_link: break`, else the next _fetch up to
\* its first request
Advance ==
    /\ pc = "page"
    /\ idx > Len(PageItems(page))
    /\ IF ~MorePages
       THEN /\ IF purpose = "drives"
               THEN /\ drive_id' = None
                    /\ pc' = "resolved"
                    /\ UNCHANGED endVars
               ELSE /\ EndGraph(Return(items))
                    /\ UNCHANGED drive_id
            /\ UNCHANGED <<retryVars, url, req>>
       ELSE /\ url' = FetchTarget(is_initial, page.nextLink, request_url, opts)
            /\ req' = [kind |-> purpose, tries |-> 0, status |-> 0]
            /\ EnterRetry
            /\ pc' = "get"
            /\ UNCHANGED <<drive_id, endVars>>
    /\ UNCHANGED <<clientVars, call, graph_calls, legacyVars, phase,
                   file_size, items, pageVars, last_get>>

\* --------------------------------------------- the single-request methods
\* a request outside the fetcher is about to be issued to `target`
PlainRequest(kind, target, label) ==
    /\ url' = target
    /\ req' = [kind |-> kind, tries |-> 0, status |-> 0]
    /\ pc' = label

\* the lines after parse_server_relative_url: the URL is formatted with
\* drive_id, whatever it is, and the request is prepared
RequestOnDrive ==
    /\ pc = "resolved"
    /\ LET relative_path == get_encoded_relative_path(ResolvedPath) IN
         IF phase = "list"
         THEN StartFetch("children", ChildrenUrl(drive_id, relative_path),
                         call.args.opts)
         ELSE /\ CASE phase = "download" ->
                        PlainRequest("download",
                                     ContentUrl(drive_id, relative_path),
                                     "content")
                   [] phase = "probe" ->
                        PlainRequest("probe",
                                     FolderUrl(drive_id, relative_path),
                                     "probe")
                   [] OTHER ->
                        PlainRequest("upload",
                                     UploadUrl(drive_id, relative_path,
                                               call.args.source_file_path),
                                     "put")
              /\ UNCHANGED <<pageVars, retryVars, last_get>>
    /\ UNCHANGED <<clientVars, callVars, opVars>>

\* mutant: a drive id of None is rejected before the request
Resolved_ChecksDrive ==
    IF pc = "resolved" /\ drive_id = None
    THEN /\ EndGraph(Raise("ValueError"))
         /\ UNCHANGED <<clientVars, call, graph_calls, legacyVars, opVars,
                        pageVars, retryVars, url, last_get, req>>
    ELSE RequestOnDrive

\* the drive is resolved: the method goes on to its own request
Resolved == RequestOnDrive

\* download_file: requests.get, raise_for_status, write the file
download_file ==
    /\ pc = "content"
    /\ \E status \in PlainStatuses :
         /\ req' = [req EXCEPT !.tries = @ + 1, !.status = status]
         /\ IF PlainError(status) # None
            THEN EndGraph(Raise(PlainError(status)))
            ELSE EndGraph(Return(<<>>))
    /\ UNCHANGED <<clientVars, call, graph_calls, legacyVars, opVars,
                   pageVars, retryVars, url, last_get>>

\* folder_exists: `except requests.exceptions.HTTPError: return False`
FolderExistsResult(status) == ~raise_for_status(status)

\* Python's True and False as a method's return value
Bool(b) == IF b THEN <<"True">> ELSE <<"False">>

\* folder_exists: requests.get and raise_for_status inside its try.  Called
\* by upload_file it goes on with `if not self.folder_exists(...)`, up to
\* the first request of the second parse_server_relative_url.
folder_exists ==
    /\ pc = "probe"
    /\ \E status \in PlainStatuses :
         IF status = NetworkError
         THEN /\ EndGraph(Raise("ConnectionError"))
              /\ req' = [req EXCEPT !.tries = @ + 1, !.status = status]
              /\ UNCHANGED <<phase, pageVars, retryVars, url, last_get>>
         ELSE IF call.op = "folder_exists"
         THEN /\ EndGraph(Return(Bool(FolderExistsResult(status))))
              /\ req' = [req EXCEPT !.tries = @ + 1, !.status = status]
              /\ UNCHANGED <<phase, pageVars, retryVars, url, last_get>>
         ELSE IF ~FolderExistsResult(status)
         THEN /\ EndGraph(Raise(FolderMissing))
              /\ req' = [req EXCEPT !.tries = @ + 1, !.status = status]
              /\ UNCHANGED <<phase, pageVars, retryVars, url, last_get>>
         ELSE /\ phase' = "put"
              /\ StartResolve
              /\ UNCHANGED endVars
    /\ UNCHANGED <<clientVars, call, graph_calls, legacyVars, file_size,
                   drive_id, items>>

\* upload_file: requests.put, raise_for_status, map the item
upload_file_put ==
    /\ pc = "put"
    /\ \E status \in PlainStatuses :
         /\ req' = [req EXCEPT !.tries = @ + 1, !.status = status]
         /\ IF PlainError(status) # None
            THEN EndGraph(Raise(PlainError(status)))
            ELSE EndGraph(Return(<<map_file_properties(
                                     [name |-> call.args.source_file_path,
                                      keys |-> {"file"}], TRUE)>>))
    /\ UNCHANGED <<clientVars, call, graph_calls, legacyVars, opVars,
                   pageVars, retryVars, url, last_get>>

\* the legacy method runs (a black box) and its outcome reaches the caller
LegacyRun ==
    /\ pc = "legacy"
    /\ LET c == legacy_calls[Len(legacy_calls)] IN
       \E tree \in TreesFor(c.op) :
       \E run \in legacy_method(c.op, c.args, tree) :
         /\ remote' = tree
         /\ legacy_outcome' = run.outcome
         /\ legacy_requests' = run.requests
         /\ file_size' = IF c.op = "upload_file" THEN run.size ELSE file_size
         /\ result' = IF backend = "auto" THEN FallbackResult(run.outcome)
                      ELSE run.outcome
    /\ pc' = "done"
    /\ UNCHANGED <<clientVars, call, graph_calls, legacy_calls, graph_outcome,
                   fell_back, phase, drive_id, items, pageVars, retryVars, url,
                   last_get, req>>

\* the call is over: the caller has its result, the frames are gone
Finish ==
    /\ pc = "done"
    /\ pc' = "idle"
    /\ call' = NoCall
    /\ graph_calls' = <<>>
    /\ legacy_calls' = <<>>
    /\ graph_outcome' = NoOutcome
    /\ legacy_outcome' = NoOutcome
    /\ legacy_requests' = <<>>
    /\ remote' = EmptyTree
    /\ result' = NoOutcome
    /\ phase' = None
    /\ file_size' = 0
    /\ drive_id' = None
    /\ items' = <<>>
    /\ IdleFetch
    /\ UNCHANGED <<clientVars, fell_back>>

Next ==
    \/ SharePointClient_init
    \/ get_site_id
    \/ Call
    \/ GraphNotImplemented
    \/ GraphResolveStart
    \/ upload_file_start
    \/ Get
    \/ Sleep
    \/ Yield
    \/ Advance
    \/ Resolved
    \/ download_file
    \/ folder_exists
    \/ upload_file_put
    \/ LegacyRun
    \/ Finish

Spec == Init /\ [][Next]_vars

\* The thread that consumes a paginated fetch keeps running: a request is
\* answered, a sleep ends, the loops take their next step.
FetchStep == Get \/ Sleep \/ Yield \/ Advance

LiveSpec == Init /\ [][Next]_vars /\ WF_vars(FetchStep)

\* ------------------------------------------- constructing the credential
sharepointVars == <<backend, token_calls, headers, site_id, callVars, opVars,
                    pageVars, retryVars, url, last_get, req, pc>>

\* AuthConfig(**kwargs)
AuthConfig_init ==
    /\ auth.kind = "none"
    /\ auth' = AuthConfig(kwargs)
    /\ UNCHANGED <<kwargs, credential, utilVars, sharepointVars>>

\* get_credential(auth)
get_credential ==
    /\ auth.kind = "config"
    /\ credential.kind = "none"
    /\ credential' = credential_of(auth.cfg)
    /\ UNCHANGED <<kwargs, auth, utilVars, sharepointVars>>

AuthNext ==
    \/ AuthConfig_init
    \/ get_credential

AuthSpec == AuthInit /\ [][AuthNext]_vars

\* ------------------------------------------------- the scope of a site URL
UrlInit ==
    /\ kwargs = NoKwargs
    /\ auth = NoAuth
    /\ credential = NoCredential
    /\ site_url \in SiteUrls
    /\ scope = NoScope
    /\ CertIdle
    /\ legacy_kwargs = NoLegacyKwargs
    /\ ClientInit

\* authority_from_url(site_url)
AuthorityFromUrl ==
    /\ scope.authority.kind = "none"
    /\ scope' = [scope EXCEPT !.authority = authority_from_url(site_url)]
    /\ UNCHANGED <<kwargs, auth, credential, site_url, certVars,
                   legacy_kwargs, sharepointVars>>

\* spo_scope_from_url(site_url)
SpoScopeFromUrl ==
    /\ scope.scope.kind = "none"
    /\ scope' = [scope EXCEPT !.scope = spo_scope_from_url(site_url)]
    /\ UNCHANGED <<kwargs, auth, credential, site_url, certVars,
                   legacy_kwargs, sharepointVars>>

UrlNext ==
    \/ AuthorityFromUrl
    \/ SpoScopeFromUrl

UrlSpec == UrlInit /\ [][UrlNext]_vars

\* ------------------------------------------- a self-signed certificate
CertInit ==
    /\ kwargs = NoKwargs
    /\ auth = NoAuth
    /\ credential = NoCredential
    /\ UrlIdle
    /\ cert_args \in CertArgs
    /\ cert = NoCert
    /\ legacy_kwargs = NoLegacyKwargs
    /\ ClientInit

\* generate_self_signed_certificate(**cert_args)
GenerateCertificate ==
    /\ cert.outcome.kind = "none"
    /\ cert' = generate_self_signed_certificate(cert_args)
    /\ UNCHANGED <<kwargs, auth, credential, urlVars, cert_args,
                   legacy_kwargs, sharepointVars>>

CertNext == GenerateCertificate

CertSpec == CertInit /\ [][CertNext]_vars

\* ------------------------------- a client built from deprecated kwargs
LegacyInit ==
    /\ kwargs = NoKwargs
    /\ auth = NoAuth
    /\ credential = NoCredential
    /\ UrlIdle
    /\ CertIdle
    /\ legacy_kwargs \in LegacyKwargs
    /\ ClientInit

\* SharePointClient(site_url, **legacy_kwargs) with auth=None
SharePointClient_legacy_init ==
    /\ auth.kind = "none"
    /\ auth' = auth_from_legacy_kwargs(legacy_kwargs)
    /\ UNCHANGED <<kwargs, credential, utilVars, sharepointVars>>

LegacyNext == SharePointClient_legacy_init

LegacySpec == LegacyInit /\ [][LegacyNext]_vars

\* ================================================================= claims
FetchKinds == {"drives", "children"}

\* the Graph method was ended by an exception of _fetch_with_retry
FetchRaised ==
    /\ pc = "done"
    /\ req.kind \in FetchKinds
    /\ req.tries > 0
    /\ graph_outcome.kind = "raise"

\* C1: _fetch_with_retry issues at most 5 GETs for one URL, and when every
\* response to it had a status in {429, 503, 504} it raises the HTTP error
\* after exactly the 5th attempt.
C1_AtMostFiveThenHttpError ==
    /\ req.kind \in FetchKinds => req.tries <= 5
    /\ (FetchRaised /\ all_retryable)
          => (req.tries = 5 /\ graph_outcome.err = "HTTPError")

\* C2: on the orchestrator every call invokes the Graph backend first, with
\* the caller's arguments; the legacy backend is invoked iff that invocation
\* raised the feature-not-available signal, once, with the same arguments,
\* and its result is the caller's; an earlier fallback changes nothing.
C2_GraphFirstLegacyIffSignal ==
    (backend = "auto" /\ pc = "done") =>
        /\ graph_calls = <<call>>
        /\ Len(legacy_calls) <= 1
        /\ (legacy_calls # <<>>) <=>
              (graph_outcome.kind = "raise"
               /\ graph_outcome.err = "NotImplementedError")
        /\ legacy_calls # <<>> =>
              (legacy_calls = <<call>> /\ result = legacy_outcome)

\* C3: a Graph failure other than the feature-not-available signal never
\* reaches the legacy backend and is the caller's failure, unchanged.
C3_OtherFailuresPropagate ==
    (backend = "auto" /\ graph_outcome.kind = "raise"
     /\ graph_outcome.err # "NotImplementedError") =>
        /\ legacy_calls = <<>>
        /\ pc = "done"
        /\ result = graph_outcome

C3_Witness ==
    /\ backend = "auto"
    /\ pc = "done"
    /\ fell_back
    /\ graph_outcome = Raise("ConnectionError")
    /\ result = Raise("ConnectionError")
    /\ legacy_calls = <<>>

\* C4: every operation of the FileClient protocol called on the orchestrator
\* ends with the result of the Graph backend or of the legacy backend.
C4_UnionOfBackends ==
    (backend = "auto" /\ pc = "done") =>
        \/ (graph_outcome.kind # "none" /\ legacy_outcome.kind = "none"
            /\ result = graph_outcome)
        \/ (legacy_outcome.kind # "none" /\ result = legacy_outcome)

\* C5: a response of _fetch_with_retry with a status >= 400 outside
\* {429, 503, 504} ends the call at once with the HTTP error: no sleep and
\* no GET follows it, and as the first response it leaves exactly one GET.
C5_NonRetryablePropagates ==
    (req.kind \in FetchKinds /\ req.status >= 400
     /\ req.status \notin {429, 503, 504}) =>
        /\ pc = "done"
        /\ graph_outcome = Raise("HTTPError")
        /\ result = Raise("HTTPError")
        /\ nsleeps = req.tries - 1
        /\ attempt = req.tries

C5_Witness ==
    /\ pc = "done"
    /\ req = [kind |-> "children", tries |-> 1, status |-> 404]
    /\ nsleeps = 0
    /\ result = Raise("HTTPError")

\* the pages but the last
Front(pages) == SubSeq(pages, 1, Len(pages) - 1)

\* C6: the paginated fetcher yields the concatenation of the value arrays of
\* the pages, in page order and in response order within a page, each item
\* once; every item of a page is out before the next page is requested; an
\* empty first page without a link yields nothing and is no error.
C6_YieldsConcatenation ==
    /\ (purpose \in FetchKinds /\ Len(served) > 0) =>
          yielded = Flatten(Front(served))
                    \o SubSeq(served[Len(served)].value, 1, idx - 1)
    /\ (purpose \in FetchKinds /\ pc \in {"get", "sleep"}) =>
          yielded = Flatten(served)
    /\ (purpose = "children" /\ graph_outcome.kind = "return") =>
          yielded = Flatten(served)
    /\ (purpose = "children" /\ served = <<NoPage>> /\ pc = "done") =>
          (yielded = <<>> /\ graph_outcome = Return(<<>>))

C6_Witness ==
    /\ pc = "done"
    /\ purpose = "children"
    /\ graph_outcome.kind = "return"
    /\ Len(served) = 2
    /\ served[1].value = <<ChildFolder>>
    /\ served[2].value = <<ChildFile>>
    /\ yielded = <<ChildFolder, ChildFile>>

\* the URL the request for page k of the fetch in progress must go to
TargetOfPage(k) ==
    IF k = 1
    THEN request_url
         \o build_request_params([opts EXCEPT !.top = EffectiveTop(opts.top)])
    ELSE served[k - 1].nextLink

\* the response to the last GET was a page
LastGetServed == req.status # 0 /\ req.status < 400

\* C7: every GET of a paginated fetch goes to the initial URL with its query
\* options (page 1) or to exactly the continuation link of the most recent
\* page; a retry goes to the URL of the failed attempt; after a page without
\* a continuation link no GET is issued.
C7_TargetsAndEnd ==
    /\ (req.kind \in FetchKinds /\ req.tries > 0) =>
          last_get = TargetOfPage(IF LastGetServed THEN Len(served)
                                  ELSE Len(served) + 1)
    /\ (purpose \in FetchKinds /\ pc \in {"get", "sleep"} /\ Len(served) > 0)
          => served[Len(served)].nextLink # NoLink

C7_Witness ==
    /\ pc = "sleep"
    /\ purpose = "children"
    /\ opts = SomeOpts
    /\ Len(served) = 1
    /\ req.tries = 2
    /\ last_get = served[1].nextLink
    /\ last_get # request_url

\* C8: after a retryable response that carries a Retry-After header with a
\* value, the fetcher sleeps that value, in seconds, before the next attempt.
C8_RetryAfterVerbatim ==
    (req.kind \in FetchKinds /\ req.status \in {429, 503, 504}
     /\ retry_after.present /\ retry_after.text # <<>> /\ attempt < 5) =>
        /\ pc = "sleep"
        /\ IntParses(retry_after.text)
        /\ delay = 1000 * int(retry_after.text)

\* C9: without a Retry-After header the delay before retry k is
\* 1s * 2^(k-1) plus a jitter in [0, 0.5s): it lies in [1,1.5), [2,2.5),
\* [4,4.5), [8,8.5) for k = 1..4, so it grows strictly with k.
C9_BackoffRanges ==
    /\ (pc = "sleep" /\ ~retry_after.present) =>
          /\ attempt \in 1..4
          /\ attempt = 1 => (1000 <= delay /\ delay < 1500)
          /\ attempt = 2 => (2000 <= delay /\ delay < 2500)
          /\ attempt = 3 => (4000 <= delay /\ delay < 4500)
          /\ attempt = 4 => (8000 <= delay /\ delay < 8500)
    /\ \A k \in 1..3 : \A j1, j2 \in JitterValues :
          RetryDelay(NoHeader, k, j1) < RetryDelay(NoHeader, k + 1, j2)

C9_Witness ==
    /\ pc = "sleep"
    /\ ~retry_after.present
    /\ attempt = 4
    /\ nsleeps = 3
    /\ delay = 8499

\* C10: every HTTP request of the Graph backend that surfaces the HTTP error
\* of a transient status (429, 503, 504) has been attempted 5 times.
C10_AllRequestsRetried ==
    (pc \in {"done", "failed"} /\ result = Raise("HTTPError")
     /\ req.status \in {429, 503, 504}) =>
        req.tries = 5

\* C11: every error met during an operation reaches the caller.  An HTTP
\* error response (status >= 400) that ends a Graph backend operation ends
\* it with an exception, never with a normal return value, and the
\* folder-existence probe of upload_file surfaces the HTTP error it received.
C11_ErrorsPropagate ==
    (backend \in {"graph", "auto"} /\ pc = "done" /\ req.tries > 0
     /\ req.status >= 400) =>
        /\ result.kind = "raise"
        /\ req.kind = "probe" => result = Raise("HTTPError")

\* C12: on the Graph backend recursively_list_files,
\* recursively_list_folders, move_file_to_folder, rename_file, recycle_file
\* and create_folder_if_not_exists raise NotImplementedError for every
\* argument: the step that runs one of them issues no request, changes
\* nothing of the client and never ends the method with a return.
C12_UnimplementedAlwaysRaise ==
    [][(pc = "graph"
        /\ call.op \in {"recursively_list_files", "recursively_list_folders",
                        "move_file_to_folder", "rename_file", "recycle_file",
                        "create_folder_if_not_exists"})
       => /\ graph_outcome' = Raise("NotImplementedError")
          /\ backend = "graph" => result' = Raise("NotImplementedError")
          /\ UNCHANGED <<clientVars, opVars, pageVars, retryVars, url,
                         last_get, req>>]_vars

C12_Witness ==
    /\ backend = "graph"
    /\ pc = "done"
    /\ call.op = "rename_file"
    /\ result = Raise("NotImplementedError")
    /\ req = NoReq
    /\ token_calls = 1

\* the requests a Graph operation issues (the site lookup is __init__'s)
OpRequestKinds == {"drives", "children", "probe", "download", "upload"}

\* the Graph upload_file has read its file
GraphUploadRead ==
    /\ backend \in {"graph", "auto"}
    /\ call.op = "upload_file"
    /\ pc # "graph"

\* the legacy upload_file has run
LegacyUploadRan ==
    /\ backend = "legacy"
    /\ call.op = "upload_file"
    /\ pc = "done"

\* C13: upload_file rejects a file over the cap of its backend before any
\* request of that operation: over 250 MB (250*1024*1024 bytes) on the Graph
\* backend, over 4 MB (4*1024*1024 bytes) on the legacy backend; a file of
\* exactly the cap passes the size guard.
C13_UploadSizeGuards ==
    /\ (GraphUploadRead /\ file_size > 250 * 1024 * 1024) =>
          /\ pc = "done"
          /\ graph_outcome = Raise("RuntimeError")
          /\ req.kind \notin OpRequestKinds
          /\ last_get = <<>>
    /\ (GraphUploadRead /\ file_size = 250 * 1024 * 1024) =>
          /\ req.kind \in OpRequestKinds
          /\ graph_outcome # Raise("RuntimeError")
    /\ (LegacyUploadRan /\ file_size > 4 * 1024 * 1024) =>
          /\ legacy_outcome = Raise("RuntimeError")
          /\ legacy_requests = <<>>
    /\ (LegacyUploadRan /\ file_size = 4 * 1024 * 1024) =>
          /\ legacy_requests # <<>>
          /\ legacy_outcome # Raise("RuntimeError")

C13_Witness ==
    /\ backend = "graph"
    /\ pc = "done"
    /\ call.op = "upload_file"
    /\ file_size = 250 * 1024 * 1024 + 1
    /\ result = Raise("RuntimeError")
    /\ req.kind = "site"

\* C14: upload_file called with a destination folder that does not exist
\* raises its precondition error before any request of that operation is
\* issued: no request reaches the remote service.
C14_MissingFolderBeforeAnyRequest ==
    /\ (call.op = "upload_file" /\ graph_outcome = Raise(FolderMissing)) =>
          req.kind \notin OpRequestKinds
    /\ (call.op = "upload_file" /\ legacy_outcome = Raise(FolderMissing)) =>
          legacy_requests = <<>>

\* C14, amended: the precondition error for a missing destination folder is
\* raised after the read-only existence check (Graph: the drives listing and
\* one probe GET; legacy: one folder query) and before the upload request:
\* no upload request reaches the remote service.
C14_MissingFolderBeforeUpload ==
    /\ (call.op = "upload_file" /\ graph_outcome = Raise(FolderMissing)) =>
          /\ pc = "done"
          /\ phase = "probe"
          /\ req.kind = "probe"
          /\ req.tries = 1
          /\ req.status >= 400
    /\ (call.op = "upload_file" /\ req.kind = "upload") => phase = "put"
    /\ (call.op = "upload_file" /\ legacy_outcome = Raise(FolderMissing)) =>
          legacy_requests = <<"folder_exists">>

C14_Witness ==
    /\ backend = "auto"
    /\ pc = "done"
    /\ call.op = "upload_file"
    /\ result = Raise(FolderMissing)
    /\ req = [kind |-> "probe", tries |-> 1, status |-> 404]

\* the new name of the rename_file call in progress has a "/" in it
NewNameHasSeparator ==
    /\ call.op = "rename_file"
    /\ \E i \in 1..Len(call.args.new_file_name) :
         call.args.new_file_name[i] = "/"

\* C15: rename_file with a new_file_name that contains a directory separator
\* raises the precondition error before any request, on the legacy backend
\* and on the orchestrator (Graph raises NotImplementedError, then the legacy
\* backend rejects the name); nothing is sent that could change the file.
C15_RenameRejectsPath ==
    (NewNameHasSeparator /\ backend \in {"legacy", "auto"} /\ pc = "done") =>
        /\ result = Raise(NameHasPath)
        /\ legacy_outcome = Raise(NameHasPath)
        /\ legacy_requests = <<>>
        /\ req.kind \notin OpRequestKinds
        /\ backend = "auto" =>
              (graph_outcome = Raise("NotImplementedError")
               /\ legacy_calls = <<call>>)

C15_Witness ==
    /\ backend = "auto"
    /\ pc = "done"
    /\ call.op = "rename_file"
    /\ call.args.new_file_name = <<"x", "/", "n">>
    /\ result = Raise(NameHasPath)
    /\ legacy_requests = <<>>

\* the fields the table of strategies lists as required
TableRequires(strategy) ==
    CASE strategy = "client_secret" ->
           {"tenant_id", "client_id", "client_secret"}
      [] strategy = "client_certificate" ->
           {"tenant_id", "client_id", "certificate_path"}
      [] strategy = "username_password" ->
           {"tenant_id", "client_id", "username", "password", "client_secret"}
      [] strategy = "interactive_browser" ->
           {"tenant_id", "client_id", "redirect_uri"}
      [] OTHER -> {}

\* the argument is supplied with a value
Supplied(f) == kwargs[f] \notin {Absent, None, ""}

\* every path that is supplied exists
PathsExist ==
    /\ kwargs.certificate_path \in {Absent, "cert.pem", "token.jwt"}
    /\ kwargs.federated_token_file \in {Absent, "cert.pem", "token.jwt"}

\* the secrets of the AuthConfig are the values it was constructed from
SecretsRoundTrip ==
    \A f \in {"client_secret", "password", "certificate_password"} :
        IF kwargs[f] = Absent THEN auth.cfg[f] = NoValue
        ELSE auth.cfg[f] # NoValue /\ get_secret_value(auth.cfg[f]) = Str(kwargs[f])

C17_PathMustExist ==
    auth.kind # "none" =>
        ((auth.kind = "error" /\ auth.err = <<"Path does not exist">>)
         <=> ~PathsExist)

C17_Witness ==
    /\ kwargs.strategy = "cli"
    /\ kwargs.certificate_path = Absent
    /\ kwargs.federated_token_file = "nope.jwt"
    /\ auth = AuthError(<<"Path does not exist">>)

\* the plain value of an argument, None when it is not supplied
Plain(f) == IF kwargs[f] \in {Absent, None} THEN NoValue ELSE Str(kwargs[f])

\* the kind of credential get_credential builds for each strategy
KindFor(strategy) ==
    CASE strategy = "default" -> "DefaultAzureCredential"
      [] strategy = "cli" -> "AzureCliCredential"
      [] strategy = "managed_identity" -> "ManagedIdentityCredential"
      [] strategy = "client_secret" -> "ClientSecretCredential"
      [] strategy = "client_certificate" -> "CertificateCredential"
      [] strategy = "interactive_browser" -> "InteractiveBrowserCredential"
      [] strategy = "username_password" -> "UsernamePasswordCredential"

\* what C18 says of the credential but for the certificate password
CredentialAsConfigured ==
    /\ credential.kind = KindFor(kwargs.strategy)
    /\ credential.authority = Plain("authority")
    /\ credential.kind = "ClientSecretCredential" =>
          /\ credential.tenant_id = Str(kwargs.tenant_id)
          /\ credential.client_id = Str(kwargs.client_id)
          /\ credential.client_secret = Str(kwargs.client_secret)
    /\ credential.kind = "CertificateCredential" =>
          /\ credential.tenant_id = Str(kwargs.tenant_id)
          /\ credential.client_id = Str(kwargs.client_id)
          /\ credential.certificate_path = Str(kwargs.certificate_path)
    /\ credential.kind = "UsernamePasswordCredential" =>
          /\ credential.tenant_id = Str(kwargs.tenant_id)
          /\ credential.client_id = Str(kwargs.client_id)
          /\ credential.username = auth.cfg.username
          /\ credential.password = Str(kwargs.password)
          /\ credential.client_credentials = Str(kwargs.client_secret)
    /\ credential.kind = "InteractiveBrowserCredential" =>
          /\ credential.tenant_id = Str(kwargs.tenant_id)
          /\ credential.client_id = Str(kwargs.client_id)
          /\ credential.redirect_uri = auth.cfg.redirect_uri
    /\ credential.kind = "ManagedIdentityCredential" =>
          credential.client_id = Plain("client_id")

\* C18: get_credential maps each strategy of a validated AuthConfig to its
\* credential kind and passes it that strategy's fields, every secret
\* unwrapped to its plain value and the authority unchanged; it never
\* dereferences a field that is None.
C18_CredentialPerStrategy ==
    credential.kind # "none" =>
        /\ CredentialAsConfigured
        /\ credential.kind = "CertificateCredential" =>
              credential.password = Plain("certificate_password")

\* C19: once a GraphFileClient is constructed no operation on it requests
\* a token or changes its Authorization header or its site id: get_token has
\* been called exactly once, at construction, and every request is sent with
\* the one bearer header.
C19_TokenFetchedOnce ==
    /\ (backend \in {"graph", "auto"} /\ pc # "new") =>
          (token_calls = 1 /\ headers = BearerHeader)
    /\ (backend \in {"graph", "auto"} /\ pc \notin {"new", "site", "failed"}) =>
          site_id = "site-1"

C19_Witness ==
    /\ backend = "graph"
    /\ call.op = "list_files_in_folder"
    /\ req.kind = "children"
    /\ req.tries = 2
    /\ token_calls = 1
    /\ headers = BearerHeader
    /\ site_id = "site-1"

\* the operations that return lists of FileItem or FolderItem
ListingOps == {"list_files_in_folder", "list_folders_in_folder",
               "recursively_list_files", "recursively_list_folders"}

\* C20: the metadata of an item is kept only when the caller asked for it:
\* every item a listing operation of either backend or of the orchestrator
\* returns to a call with keep_metadata = False has extra = None.
C20_ExtraOnlyOnOptIn ==
    (/\ pc = "done"
     /\ call.op \in ListingOps
     /\ ~call.args.keep_metadata
     /\ result.kind = "return") =>
        \A i \in DOMAIN result.val : result.val[i].extra = <<>>

\* the test of a drive as the description of drive resolution states it:
\* the encoded library name is part of the web URL, or the name is the
\* library name
DriveMatchesExactly(server_relative_url, item) ==
    LET library_name == LibraryName(server_relative_url)
    IN IsSubstring(quote(library_name), item.webUrl)
       \/ item.name = library_name

\* C23: drive resolution returns the id of the first drive, in response
\* order, whose web URL contains the encoded library name or whose name
\* equals the library name, and never a drive that satisfies neither; with
\* no such drive it returns None.
C23_FirstMatchingDrive ==
    (pc = "resolved" /\ purpose = "drives") =>
        IF \E i \in 1..Len(yielded) :
              DriveMatchesExactly(ResolvedPath, yielded[i])
        THEN LET i == CHOOSE i \in 1..Len(yielded) :
                        /\ DriveMatchesExactly(ResolvedPath, yielded[i])
                        /\ \A j \in 1..(i - 1) :
                              ~DriveMatchesExactly(ResolvedPath, yielded[j])
             IN drive_id = yielded[i].id
        ELSE drive_id = None

\* the names of a sequence of items
NamesOf(its) == [i \in 1..Len(its) |-> its[i].name]

\* the children of a listing that carry the key
WithKey(children, key) == SelectSeq(children, LAMBDA it : key \in it.keys)

\* C24: on the Graph backend list_files_in_folder returns exactly the
\* children that carry a `file` key and list_folders_in_folder exactly those
\* that carry a `folder` key, in response order; with no such child the
\* result is the empty list.
C24_ExactlyFileOrFolderKey ==
    (/\ pc = "done"
     /\ call.op \in {"list_files_in_folder", "list_folders_in_folder"}
     /\ graph_outcome.kind = "return") =>
        NamesOf(result.val) =
            NamesOf(WithKey(yielded, IF call.op = "list_files_in_folder"
                                     THEN "file" ELSE "folder"))

\* C27: a Graph listing is all or nothing: it returns the items of every
\* page of the listing, up to the page without a continuation link, or it
\* raises and the caller gets the error and none of the items fetched so
\* far.
C27_AllOrNothing ==
    (/\ pc = "done"
     /\ call.op \in {"list_files_in_folder", "list_folders_in_folder"}
     /\ graph_outcome.kind # "none") =>
        /\ result = graph_outcome
        /\ \/ /\ result.kind = "raise"
              /\ result.val = <<>>
           \/ /\ result.kind = "return"
              /\ purpose = "children"
              /\ served # <<>>
              /\ served[Len(served)].nextLink = NoLink
              /\ \A k \in 1..(Len(served) - 1) : served[k].nextLink # NoLink
              /\ yielded = Flatten(served)
              /\ NamesOf(result.val) =
                    NamesOf(SelectSeq(yielded,
                                      LAMBDA it : ListsItem(call.op, it)))

C27_Witness ==
    /\ pc = "done"
    /\ call.op = "list_files_in_folder"
    /\ purpose = "children"
    /\ Len(served) = 1
    /\ items # <<>>
    /\ result.kind = "raise"
    /\ result.val = <<>>

\* C28: the retry budget is per request: every page of a paginated fetch
\* starts at attempt 1 with no GET made and no sleep done, whatever the
\* page before it used; a first failure is backed off by the base delay; and
\* a retryable failure before the fifth attempt of a page is always retried.
C28_BudgetPerPage ==
    [][/\ (pc = "page" /\ pc' = "get") =>
             (attempt' = 1 /\ nsleeps' = 0 /\ req'.tries = 0)
       /\ (pc = "get" /\ pc' = "sleep" /\ attempt = 1
           /\ ~Truthy(retry_after')) =>
             (BASE_DELAY <= delay' /\ delay' < BASE_DELAY + JITTER_MAX)
       /\ (pc = "get" /\ req'.tries > req.tries /\ IsRetryable(req'.status)
           /\ attempt < MAX_RETRIES
           /\ (Truthy(retry_after') => IntParses(retry_after'.text))) =>
             (pc' = "sleep" /\ attempt' = attempt)
       /\ (pc = "sleep" /\ pc' = "get") =>
             (attempt' = attempt + 1 /\ attempt' <= MAX_RETRIES)]_vars

C28_Witness ==
    /\ pc = "get"
    /\ purpose = "children"
    /\ Len(served) = 1
    /\ page_number = 1
    /\ attempt = MAX_RETRIES
    /\ req.tries = MAX_RETRIES - 1

\* the URL of the request the operation in progress issues on `drive`
OperationUrl(drive) ==
    LET relative_path == get_encoded_relative_path(ResolvedPath) IN
    CASE call.op = "download_file" -> ContentUrl(drive, relative_path)
      [] call.op = "folder_exists" -> FolderUrl(drive, relative_path)
      [] OTHER ->
           ChildrenUrl(drive, relative_path)
           \o build_request_params(
                  [call.args.opts EXCEPT !.top = EffectiveTop(@)])

\* the operations that resolve a drive and then issue one request on it
ResolvingOps == {"list_files_in_folder", "list_folders_in_folder",
                 "download_file", "folder_exists"}

\* C30: when no drive of the site matches the library, drive resolution
\* ends with None and without an exception, and list_files_in_folder,
\* list_folders_in_folder, download_file and folder_exists go on to issue
\* their request to the URL formatted with that None.
C30_RequestOnMissingDrive ==
    [][/\ (/\ pc = "page" /\ pc' = "resolved"
           /\ \A i \in 1..Len(yielded') :
                 ~DriveMatches(ResolvedPath, yielded'[i])) =>
             (drive_id' = None /\ UNCHANGED endVars)
       /\ (/\ pc = "resolved" /\ drive_id = None
           /\ call.op \in ResolvingOps) =>
             /\ pc' \in {"get", "content", "probe"}
             /\ url' = OperationUrl(None)
             /\ req'.tries = 0
             /\ UNCHANGED endVars
       /\ (/\ pc \in {"get", "content", "probe"} /\ drive_id = None
           /\ call.op \in ResolvingOps
           /\ req.kind \in {"children", "download", "probe"}
           /\ served = <<>>
           /\ req'.tries = 1) =>
             url = OperationUrl(None)]_vars

C30_Witness ==
    /\ call.op = "download_file"
    /\ drive_id = None
    /\ req = [kind |-> "download", tries |-> 1, status |-> 404]
    /\ url = <<"drives/", None, "/root:/", "a", "%20", "b", ":/content">>
    /\ result = Raise("HTTPError")

\* C29: a paginated fetch ends when the chain of continuation links the
\* server hands out ends and every page succeeds or fails for good within
\* its attempts; and it ends in no other way: the client follows the link of
\* every page, whatever the number of pages fetched and also when the link
\* is the URL it has just requested, so a server that always sends a link
\* keeps it fetching.
C29_EndsWithTheLinks ==
    /\ (pc \in {"get", "sleep", "page"}) ~> (pc \in {"resolved", "done"})
    /\ [][(/\ pc = "page"
           /\ idx > Len(PageItems(page))
           /\ page.nextLink # NoLink) =>
             (/\ pc' = "get"
              /\ url' = page.nextLink
              /\ attempt' = 1
              /\ UNCHANGED <<page_number, served, yielded, endVars>>)]_vars

C29_Witness ==
    /\ pc = "done"
    /\ purpose = "children"
    /\ graph_outcome.kind = "return"
    /\ Len(served) = 2
    /\ served[1].nextLink = TargetOfPage(1)
    /\ last_get = TargetOfPage(1)
    /\ page_number = 2

\* the subfolders of folder f
SubfoldersOf(tree, f) ==
    {tree[f].folders[i].url : i \in DOMAIN tree[f].folders}

\* the folders reached from those of S in at most n steps down
RECURSIVE ReachedFrom(_, _, _)
ReachedFrom(tree, S, n) ==
    IF n = 0 THEN S
    ELSE ReachedFrom(tree, S \cup UNION {SubfoldersOf(tree, f) : f \in S},
                     n - 1)

\* folder f and all its descendants
Subtree(tree, f) == ReachedFrom(tree, {f}, Cardinality(Folders))

\* the files folder f itself holds, and those f and its descendants hold
FilesOf(tree, f) == {tree[f].files[i].url : i \in DOMAIN tree[f].files}
FilesUnder(tree, f) == UNION {FilesOf(tree, g) : g \in Subtree(tree, f)}

\* in the list `got` every item of A comes before every item of B
AllBefore(got, A, B) ==
    \A i, j \in DOMAIN got :
        (got[i].server_relative_url \in A /\ got[j].server_relative_url \in B)
            => i < j

\* C25: on a finite folder tree the legacy recursively_list_files returns
\* every file of the start folder and of its descendants exactly once; the
\* files of the subtree of each subfolder come before the folder's own files,
\* the subtrees in the order the subfolders are listed in, the own files in
\* listing order.
C25_DepthFirstFiles ==
    (/\ pc = "done"
     /\ call.op = "recursively_list_files"
     /\ legacy_outcome.kind = "return") =>
        LET got == legacy_outcome.val IN
        /\ result = legacy_outcome
        /\ \A i \in DOMAIN got :
              got[i].server_relative_url \in FilesUnder(remote, "/D")
        /\ \A u \in FilesUnder(remote, "/D") :
              Cardinality({i \in DOMAIN got :
                              got[i].server_relative_url = u}) = 1
        /\ \A f \in Subtree(remote, "/D") :
              LET folders == remote[f].folders
                  files == remote[f].files
              IN /\ \A k \in DOMAIN folders :
                       /\ AllBefore(got, FilesUnder(remote, folders[k].url),
                                    FilesOf(remote, f))
                       /\ \A l \in DOMAIN folders :
                             k < l =>
                               AllBefore(got,
                                         FilesUnder(remote, folders[k].url),
                                         FilesUnder(remote, folders[l].url))
                 /\ \A a, b \in DOMAIN files :
                       a < b => AllBefore(got, {files[a].url}, {files[b].url})

C25_Witness ==
    /\ pc = "done"
    /\ call.op = "recursively_list_files"
    /\ remote = DeepTree
    /\ result.kind = "return"
    /\ NamesOf(result.val) = <<"b", "d", "e", "a", "c">>
    /\ Len(legacy_requests) = 8

\* site_url reads scheme "://" host rest: the scheme ends before position i,
\* the host ends at position j, and the rest is empty or starts a path, a
\* query or a fragment
IsAbsoluteAt(u, i, j) ==
    /\ 1 < i /\ i + 2 < j /\ j <= Len(u)
    /\ SubSeq(u, i, i + 2) = <<":", "/", "/">>
    /\ IsAlpha(u[1])
    /\ \A k \in 1..(i - 1) : SchemeChar(u[k])
    /\ \A k \in (i + 3)..j : u[k] \notin {"/", "?", "#"}
    /\ (j = Len(u) \/ u[j + 1] \in {"/", "?", "#"})

IsAbsolute(u) == \E i, j \in 1..Len(u) : IsAbsoluteAt(u, i, j)

ScopeFollowsAuthority ==
    (scope.authority.kind # "none" /\ scope.scope.kind # "none") =>
        IF scope.authority.kind = "raise"
        THEN scope.scope = scope.authority
        ELSE scope.scope = Return(scope.authority.val \o DefaultSuffix)

RelativeRaises ==
    (scope.authority.kind # "none" /\ ~IsAbsolute(site_url)) =>
        scope.authority = Raise("ValueError")

\* C21 as stated: on an absolute URL scheme://host/path authority_from_url
\* returns exactly scheme://host, as the characters stand in the URL; on any
\* other string it raises ValueError; spo_scope_from_url is that authority
\* followed by "/.default" and fails exactly when it fails.
C21_ExactAuthority ==
    /\ scope.authority.kind # "none" =>
        \A i, j \in 1..Len(site_url) :
            IsAbsoluteAt(site_url, i, j) =>
                scope.authority = Return(SubSeq(site_url, 1, j))
    /\ RelativeRaises
    /\ ScopeFollowsAuthority

\* C21 amended: on an absolute URL scheme://host/path authority_from_url
\* returns the scheme in lower case, "://" and the host as written; on any
\* other string it raises ValueError; spo_scope_from_url is that authority
\* followed by "/.default" and fails exactly when it fails.
C21_LowerCaseScheme ==
    /\ scope.authority.kind # "none" =>
        \A i, j \in 1..Len(site_url) :
            IsAbsoluteAt(site_url, i, j) =>
                scope.authority =
                    Return(lower(SubSeq(site_url, 1, i - 1))
                           \o SubSeq(site_url, i, j))
    /\ RelativeRaises
    /\ ScopeFollowsAuthority

\* an upper-case scheme before a mixed-case host: both functions returned
C21_Witness ==
    /\ site_url = <<"H", ":", "/", "/", "H", ".", "h", "/", "p">>
    /\ scope.authority = Return(<<"h", ":", "/", "/", "H", ".", "h">>)
    /\ scope.scope.kind = "return"

\* the paths the call wrote, and whether it generated a key
PathsWritten ==
    {cert.effects[i].path :
        i \in {k \in 1..Len(cert.effects) :
                  cert.effects[k].do = "write_bytes"}}
GeneratedKey == \E i \in 1..Len(cert.effects) : cert.effects[i] = KeyGenerated

C22_WitnessNoSelection ==
    /\ cert.outcome = Raise("ValueError")
    /\ cert_args.cert_path = "c.crt"
    /\ cert_args.key_path = None
    /\ cert_args.combined_pem_path = None
    /\ cert_args.common_name = "cn"
    /\ cert.effects = <<>>

\* the kwargs a numbered case of _auth_from_legacy_kwargs asks for
LegacySupplied(names) == \A n \in names : TruthyArg(legacy_kwargs[n])
InteractiveCase ==
    LegacySupplied({"interactive_auth", "client_id", "tenant_id"})
UsernamePasswordCase ==
    /\ LegacySupplied({"username", "password", "client_id", "client_secret",
                 "tenant_id"})
    /\ ~TruthyArg(legacy_kwargs.interactive_auth)
ClientSecretCase == LegacySupplied({"client_id", "client_secret", "tenant_id"})
ClientCertificateCase ==
    LegacySupplied({"client_id", "tenant_id", "certificate_path"})
BuiltWith(strategy) == auth.kind = "config" /\ auth.cfg.strategy = strategy

\* C26: _auth_from_legacy_kwargs translates the deprecated kwargs into the
\* strategy of its four cases: interactive browser for interactive_auth,
\* client_id and tenant_id; username/password when username, password,
\* client_id, client_secret and tenant_id are all supplied and
\* interactive_auth is not set; client secret for client_id, client_secret
\* and tenant_id; client certificate for client_id, tenant_id and
\* certificate_path; and when no case applies it raises ValueError and
\* builds no AuthConfig.
C26_StrategyOfTheCase ==
    auth.kind # "none" =>
        /\ InteractiveCase => BuiltWith("interactive_browser")
        /\ UsernamePasswordCase => BuiltWith("username_password")
        /\ (ClientSecretCase /\ ~InteractiveCase /\ ~UsernamePasswordCase)
            => BuiltWith("client_secret")
        /\ (ClientCertificateCase /\ ~InteractiveCase /\ ~ClientSecretCase
            /\ auth.kind = "config")
            => BuiltWith("client_certificate")
        /\ ~(InteractiveCase \/ UsernamePasswordCase \/ ClientSecretCase
             \/ ClientCertificateCase)
            => (auth.kind = "error" /\ auth.err[1] = "ValueError")

====
